---- MODULE Spec2Model ----
(***************************************************************************)
(* Model of the indexed semantic-search service (src/unnamed/part_002):    *)
(* the in-memory VectorStore, buildIndex with its isIndexing flag, the     *)
(* lazy (re)index step of the POST / handler, POST /reindex and            *)
(* GET /health; and VectorStore.search and semanticSearch taken alone      *)
(* (SearchSpec).                                                           *)
(*                                                                         *)
(* Node.js runs one handler at a time and switches handlers only at an     *)
(* `await`.  Every action below is therefore one synchronous segment of    *)
(* the code: from the resumption of an await to the next await (or to the  *)
(* response).  Requests are the processes; each request that calls         *)
(* buildIndex owns one invocation record of that async function.           *)
(***************************************************************************)
EXTENDS Integers, Sequences, FiniteSets, TLC

(***************************************************************************)
(* Bounds of the model.                                                    *)
(***************************************************************************)
\* number of HTTP requests (POST / or POST /reindex) that may be in flight
NReq == 3
\* the Document Source lists the first k files, 0 <= k <= NFiles
NFiles == 2
\* the clock (Date.now(), in TTL units) runs from 1 to MaxClock
MaxClock == 2
\* INDEX_TTL_MINUTES (env, default 120), in clock units
INDEX_TTL == 0
\* CHUNK_SIZE, CHUNK_OVERLAP and MAX_TEXT_CHARS_PER_FILE, scaled down so that
\* texts of a few characters produce several overlapping windows
CHUNK_SIZE == 3
CHUNK_OVERLAP == 1
MAX_TEXT_CHARS_PER_FILE == 6
\* TOPK_CHUNKS and TOPK_DOCS, scaled down so that both truncations happen on
\* snapshots of a few chunks
TOPK_CHUNKS == 3
TOPK_DOCS == 2
\* the preview length of bestSnippet (the literal 260 of lines 393 and 398)
SNIPPET_CHARS == 2
\* the snapshots a search is applied to hold the chunks of up to NDocs
\* documents, at most MaxChunks chunks in all
NDocs == 3
MaxChunks == 4
\* chunkText taken alone is given the texts of up to MaxTextLen characters
MaxTextLen == 7
\* rankearPorContexto and ordenarPorContexto are given up to MaxFiles files, of
\* which the first MAX_DOCS_FOR_LLM (src/index.js lines 12 and 399, scaled
\* down) are sent to the model
MaxFiles == 2
MAX_DOCS_FOR_LLM == 1

\* src/index.js line 14, in tenths
SEMANTIC_SCORE_THRESHOLD == 4

\* the longest vector VectorStore.cosine is called with, taken alone
MaxVecLen == 3

\* src/unnamed/part_000 line 24 (5 in the source, scaled down): the documents
\* the simple program answers with
TOP_K == 1

\* src/unnamed/part_000 line 23, in hundredths
MIN_SIMILARITY == 65

\* store.indexedAt before the first build (VectorStore constructor)
null == 0

Reqs == 1..NReq

(***************************************************************************)
(* Strings are sequences of one-character strings.                         *)
(***************************************************************************)
IsWs(c) ==
    c \in {" ", "\n", "\t"}

\* collapseWs as it would be if every whitespace character became a space of
\* its own
collapseWsKeepingRuns(s) ==
    [i \in 1..Len(s) |-> IF IsWs(s[i]) THEN " " ELSE s[i]]

\* text.replace(/\s+/g, " "): every run of whitespace becomes one space
RECURSIVE collapseWs(_)
collapseWs(s) ==
    IF s = <<>> THEN <<>>
    ELSE IF IsWs(Head(s))
         THEN IF Len(s) > 1 /\ IsWs(s[2])
              THEN collapseWs(Tail(s))
              ELSE <<" ">> \o collapseWs(Tail(s))
         ELSE <<Head(s)>> \o collapseWs(Tail(s))

\* String.prototype.trim
RECURSIVE trim(_)
trim(s) ==
    IF s = <<>> THEN <<>>
    ELSE IF IsWs(Head(s)) THEN trim(Tail(s))
    ELSE IF IsWs(s[Len(s)]) THEN trim(SubSeq(s, 1, Len(s) - 1))
    ELSE s

Min(a, b) ==
    IF a < b THEN a ELSE b

Max(a, b) ==
    IF a > b THEN a ELSE b

\* String.prototype.slice(a, b) for 0 <= a, 0 <= b (0-based, end exclusive)
slice(s, a, b) ==
    SubSeq(s, a + 1, Min(b, Len(s)))

\* chunkLoop as it would be if the next window started at the previous end
RECURSIVE chunkLoopWithoutOverlap(_, _, _)
chunkLoopWithoutOverlap(clipped, start, chunks) ==
    IF ~(start < Len(clipped)) THEN chunks
    ELSE LET end    == Min(start + CHUNK_SIZE, Len(clipped))
             piece  == trim(SubSeq(clipped, start + 1, Min(end, Len(clipped))))
             pushed == IF piece # <<>> THEN Append(chunks, piece) ELSE chunks
         IN  IF end >= Len(clipped) THEN pushed
             ELSE chunkLoopWithoutOverlap(clipped, end, pushed)

\* the while loop of chunkText: `start` is the cursor, `chunks` the output so far
RECURSIVE chunkLoop(_, _, _)
chunkLoop(clipped, start, chunks) ==
    IF ~(start < Len(clipped)) THEN chunks
    ELSE LET end    == Min(start + CHUNK_SIZE, Len(clipped))
             piece  == trim(slice(clipped, start, end))
             pushed == IF piece # <<>> THEN Append(chunks, piece) ELSE chunks
         IN  IF end >= Len(clipped) THEN pushed
             ELSE chunkLoop(clipped, Max(0, end - CHUNK_OVERLAP), pushed)

\* lines 246-261
chunkText(text) ==
    LET t == trim(collapseWs(text))
    IN  IF t = <<>> THEN <<>>
        ELSE chunkLoop(slice(t, 0, MAX_TEXT_CHARS_PER_FILE), 0, <<>>)

(***************************************************************************)
(* The external collaborators, as the values they may hand back.           *)
(***************************************************************************)
\* the text of the Google Doc with id f: odd ids hold a text of two windows,
\* even ids a text of one window
DocText(f) ==
    IF f % 2 = 1 THEN <<"a", " ", " ", "b", "c", "d">> ELSE <<" ", "a", "b">>

\* what getFileText may resolve to for file f: "" when f is not a Google Doc,
\* a whitespace-only export, or the document's text
Texts(f) ==
    { <<>>, <<" ", "\n">>, DocText(f) }

\* what listAllFilesRecursively may return: the first k files of the folder
Listings ==
    { [i \in 1..k |-> i] : k \in 0..NFiles }

\* the embedding the provider returns for a text (embedText's happy path)
embedding(text) ==
    <<Len(text), 1>>

(***************************************************************************)
(* Numbers.  A similarity is a fraction of Unit = Norm * Norm: the vectors *)
(* the provider returns here have integer components and norm 0 or Norm,   *)
(* so that Math.sqrt and the division of VectorStore.cosine are exact.     *)
(* A number printed by toFixed(4) is a fraction of 10000.                  *)
(***************************************************************************)
Norm ==
    125

Unit ==
    Norm * Norm

\* embeddings of chunks: the zero vector and two directions of norm Norm
Vecs ==
    { <<0, 0>>, <<44, 117>>, <<117, 44>> }

\* embeddings of queries
QVecs ==
    { <<44, 117>>, <<Norm, 0>> }

\* thresholds: 0.352 and 0.658944 (cosines that occur: <<Norm, 0>> with
\* <<44, 117>>, and <<44, 117>> with <<117, 44>>) and 0.96
MinSims ==
    { 44 * Norm, 2 * 44 * 117, (96 * Unit) \div 100 }

\* the largest r in lo..hi with r * r <= n, by bisection
RECURSIVE sqrtIn(_, _, _)
sqrtIn(n, lo, hi) ==
    IF lo = hi THEN lo
    ELSE LET mid == (lo + hi + 1) \div 2
         IN  IF mid * mid <= n THEN sqrtIn(n, mid, hi) ELSE sqrtIn(n, lo, mid - 1)

\* Math.sqrt on the squared norms that occur (perfect squares up to Unit)
sqrt(n) ==
    sqrtIn(n, 0, Norm)

\* the sum of a[i] * b[i] over the first n components
RECURSIVE dot(_, _, _)
dot(a, b, n) ==
    IF n = 0 THEN 0 ELSE dot(a, b, n - 1) + a[n] * b[n]
\* cosine as it would be if the norms were taken over the whole vectors
cosineWholeNorms(a, b) ==
    LET n     == Min(Len(a), Len(b))
        denom == sqrt(dot(a, a, Len(a))) * sqrt(dot(b, b, Len(b)))
    IN  IF denom # 0 THEN (dot(a, b, n) * Unit) \div denom ELSE 0

\* VectorStore.cosine, as a fraction of Unit
cosine(a, b) ==
    LET n     == Min(Len(a), Len(b))
        denom == sqrt(dot(a, a, n)) * sqrt(dot(b, b, n))
    IN  IF denom # 0 THEN (dot(a, b, n) * Unit) \div denom ELSE 0

\* Number(x.toFixed(4)) for x a fraction of Unit: the nearest fraction of 10000
toFixed4(x) ==
    (2 * 10000 * x + Unit) \div (2 * Unit)

\* Array.prototype.sort with the comparator (x, y) => y.key - x.key, which is
\* stable: the indices 1..n of keys, by decreasing key, equal keys in index order
RECURSIVE sortedOrder(_, _)
\* sortedOrder as it would be with a sort that is not stable: an element goes
\* before the elements of equal key that precede it
RECURSIVE sortedOrderTiesReversed(_, _)
sortedOrderTiesReversed(keys, n) ==
    IF n = 0 THEN <<>>
    ELSE LET prev == sortedOrderTiesReversed(keys, n - 1)
             pos  == Cardinality({j \in 1..(n - 1) : keys[j] > keys[n]})
         IN  SubSeq(prev, 1, pos) \o <<n>> \o SubSeq(prev, pos + 1, n - 1)

sortedOrder(keys, n) ==
    IF n = 0 THEN <<>>
    ELSE LET prev == sortedOrder(keys, n - 1)
             pos  == Cardinality({j \in 1..(n - 1) : keys[j] >= keys[n]})
         IN  SubSeq(prev, 1, pos) \o <<n>> \o SubSeq(prev, pos + 1, n - 1)

\* VectorStore.search over the array `its`
search(its, queryVec, topK) ==
    LET scored == [i \in 1..Len(its) |->
                      its[i] @@ [similarity |-> cosine(queryVec, its[i].vector)]]
        order  == sortedOrder([i \in 1..Len(its) |-> scored[i].similarity],
                              Len(its))
        sorted == [i \in 1..Len(its) |-> scored[order[i]]]
    IN  slice(sorted, 0, topK)

\* lines 383-401: the Map byDoc after the first n of topChunks, as the sequence
\* of its values in insertion order (the order of first appearance)
RECURSIVE byDoc(_, _)
\* byDoc as it would be if a later chunk of a document always replaced the
\* score and the snippet recorded for it
RECURSIVE byDocLastWins(_, _)
byDocLastWins(topChunks, n) ==
    IF n = 0 THEN <<>>
    ELSE LET prevDocs == byDocLastWins(topChunks, n - 1)
             c        == topChunks[n]
             at       == {k \in 1..Len(prevDocs) : prevDocs[k].id = c.fileId}
         IN  IF at = {}
             THEN Append(prevDocs,
                         [id |-> c.fileId, name |-> c.fileName,
                          score |-> c.similarity,
                          bestSnippet |-> slice(c.text, 0, SNIPPET_CHARS)])
             ELSE LET k == CHOOSE k \in at : TRUE
                  IN  [prevDocs EXCEPT
                          ![k].score = c.similarity,
                          ![k].bestSnippet = slice(c.text, 0, SNIPPET_CHARS)]

byDoc(topChunks, n) ==
    IF n = 0 THEN <<>>
    ELSE LET prevDocs == byDoc(topChunks, n - 1)
             c        == topChunks[n]
             at       == {k \in 1..Len(prevDocs) : prevDocs[k].id = c.fileId}
         IN  IF at = {}
             THEN Append(prevDocs,
                         [id |-> c.fileId, name |-> c.fileName,
                          score |-> c.similarity,
                          bestSnippet |-> slice(c.text, 0, SNIPPET_CHARS)])
             ELSE LET k == CHOOSE k \in at : TRUE
                  IN  IF c.similarity > prevDocs[k].score
                      THEN [prevDocs EXCEPT
                               ![k].score = c.similarity,
                               ![k].bestSnippet = slice(c.text, 0, SNIPPET_CHARS)]
                      ELSE prevDocs
\* sortDocs as it would be with the comparator turned round (increasing score)
sortDocsAscending(found) ==
    LET order == sortedOrder([i \in 1..Len(found) |-> 0 - found[i].score],
                             Len(found))
    IN  [i \in 1..Len(found) |-> found[order[i]]]

\* line 403: the documents by decreasing score
sortDocs(found) ==
    LET order == sortedOrder([i \in 1..Len(found) |-> found[i].score], Len(found))
    IN  [i \in 1..Len(found) |-> found[order[i]]]
\* toArchivos as it would be without the .slice(0, TOPK_DOCS) of line 407
toArchivosUncut(docs, minSimilarity) ==
    LET kept == SelectSeq(docs, LAMBDA d : d.score >= minSimilarity)
    IN  [i \in 1..Len(kept) |->
            [id |-> kept[i].id, name |-> kept[i].name,
             score |-> toFixed4(kept[i].score)]]

\* toArchivos as it would be with the strict comparison d.score > minSimilarity
toArchivosStrict(docs, minSimilarity) ==
    LET kept == slice(SelectSeq(docs, LAMBDA d : d.score > minSimilarity),
                      0, TOPK_DOCS)
    IN  [i \in 1..Len(kept) |->
            [id |-> kept[i].id, name |-> kept[i].name,
             score |-> toFixed4(kept[i].score)]]

\* lines 405-414: filter by the threshold, cut to TOPK_DOCS, keep id, name and
\* the score to four decimals (webViewLink and modifiedTime travel with name)
toArchivos(docs, minSimilarity) ==
    LET kept == slice(SelectSeq(docs, LAMBDA d : d.score >= minSimilarity),
                      0, TOPK_DOCS)
    IN  [i \in 1..Len(kept) |->
            [id |-> kept[i].id, name |-> kept[i].name,
             score |-> toFixed4(kept[i].score)]]

\* semanticSearch from line 381 on, with the query's embedding qVec in hand: its
\* locals topChunks and docs, and the value it returns
semanticSearch(its, at, qVec, minSimilarity) ==
    LET topChunks == search(its, qVec, TOPK_CHUNKS)
        docs      == sortDocs(byDoc(topChunks, Len(topChunks)))
    IN  [topChunks |-> topChunks,
         docs      |-> docs,
         archivos  |-> toArchivos(docs, minSimilarity),
         debug     |-> [min_similarity |-> minSimilarity, indexedAt |-> at,
                        top_chunks_preview |->
                            [i \in 1..Min(5, Len(topChunks)) |->
                                [fileId |-> topChunks[i].fileId,
                                 sim |-> toFixed4(topChunks[i].similarity)]]]]

\* chunkIdOf as it would be if the id were the sequence index alone
chunkIdOfIndexAlone(f, i) ==
    <<0, i>>

\* line 344: `${f.id}::${i}`, the document id and the sequence index with a
\* separator between them
chunkIdOf(f, i) ==
    <<f, i>>

\* the metadata listAllFilesRecursively returns for file f
FileName(f) ==
    <<"doc", f>>

\* the text of chunk i of a document in the snapshots a search is applied to
ChunkText(i) ==
    IF i = 0 THEN <<"a", "b", "c">> ELSE <<"b", "c">>

\* the chunks a pass leaves in store.items when the provider returned the
\* vectors vs for them and they belong to the files fs (file by file, in
\* listing order)
SnapshotOf(fs, vs) ==
    [k \in 1..Len(fs) |->
        LET i == Cardinality({j \in 1..(k - 1) : fs[j] = fs[k]})
        IN  [chunkId |-> chunkIdOf(fs[k], i), fileId |-> fs[k],
             fileName |-> FileName(fs[k]),
             text |-> ChunkText(i), vector |-> vs[k], pass |-> 1]]

\* the files of the chunks of a snapshot of n chunks: file by file, in listing
\* order
ChunkFiles(n) ==
    {g \in [1..n -> 1..NDocs] : \A j \in 1..(n - 1) : g[j] <= g[j + 1]}

(***************************************************************************)
(* State.                                                                  *)
(*                                                                         *)
(* A continuation that waits on an already settled promise runs in the     *)
(* same microtask drain as the segment that settled it, before any other   *)
(* I/O callback: when buildIndex settles (it returns or throws), the       *)
(* handler awaiting it goes on in the same step.                           *)
(***************************************************************************)
VARIABLES
    items,          \* store.items: the chunks of the active snapshot
    indexedAt,      \* store.indexedAt: null or the time of the last install
    isIndexing,     \* the module-level build-in-progress flag
    now,            \* the clock read by nowIso() and Date.now()
    hasRoot,        \* Boolean(ROOT_FOLDER_ID)
    hasEmbedding,   \* Boolean(embeddingModel)
    req,            \* per request: the position of its handler
    build,          \* per request: its invocation of buildIndex
    resp,           \* the response the last step sent (NoResp: it sent none)
    passes,         \* history: number of build passes started so far
    snapPass,       \* history: the pass that installed store.items (0: none)
    sem,            \* a call of semanticSearch taken alone: its arguments,
                    \* locals and return value
    call            \* a call of another function taken alone: its name,
                    \* arguments and return value

vars ==
    <<items, indexedAt, isIndexing, now, hasRoot, hasEmbedding, req, build, resp,
      passes, snapPass, sem, call>>

AUTO_REINDEX_ON_EMPTY ==
    TRUE

NoStats ==
    [startedAt |-> null, indexedAt |-> null, totalFiles |-> 0, indexedFiles |-> 0,
     skippedNoText |-> 0, totalChunks |-> 0]

\* the value buildIndex resolves to (note "built": the stats object)
NoOut ==
    [ok |-> FALSE, note |-> "", indexedAt |-> null, stats |-> NoStats]

\* the messages of the errors buildIndex may reject with (the last two stand for
\* whatever listAllFilesRecursively and embedText threw)
Errors ==
    {"missing_ROOT_FOLDER_ID", "embedding_model_not_initialized",
     "listing_failed", "embed_failed"}

\* a buildIndex invocation that is not executing: its locals, and the store as
\* it was when the pass started (before, history)
NoBuild ==
    [pc |-> "none", files |-> <<>>, fi |-> 0, chunks |-> <<>>, ci |-> 0,
     newItems |-> <<>>, indexedFiles |-> 0, skippedNoText |-> 0, totalChunks |-> 0,
     startedAt |-> null, pass |-> 0,
     before |-> [items |-> <<>>, indexedAt |-> null]]

\* a response: the HTTP status, `ok`, what kind of body it is (note), the chunks
\* store.search scored (scored) and debug.indexedAt for a result list,
\* buildIndex's value (out) for POST /reindex; kind, found, built and seenPass
\* repeat the request's record
NoResp ==
    [status |-> 0, ok |-> FALSE, note |-> "", scored |-> <<>>,
     indexedAt |-> null, out |-> NoOut, kind |-> "none", found |-> "", built |-> "",
     seenPass |-> 0]

\* a request: which endpoint (kind), where its handler is (pc), what it found
\* at the index-ready step (found: "empty", "expired" or "fresh"), how the
\* buildIndex call it made ended (built: "built", "indexing_in_progress" or the
\* error's message), and which pass's snapshot was active when it passed
\* line 509 (seenPass, history)
NoReq ==
    [kind |-> "none", pc |-> "idle", found |-> "", built |-> "", seenPass |-> 0]

\* the handler's locals are dead once it has responded
DoneReq ==
    [NoReq EXCEPT !.pc = "responded"]

\* the positions of buildIndex at which a pass is executing (awaiting a provider)
Running ==
    {"listing", "getText", "embed"}

\* no call of semanticSearch is being looked at
NoSem ==
    [pc |-> "idle", qVec |-> <<>>, minSimilarity |-> 0, topChunks |-> <<>>,
     docs |-> <<>>, archivos |-> <<>>, debug |-> <<>>]

\* no call of another function is being looked at
NoCall ==
    [fn |-> "none"]

Init ==
    /\ items = <<>>
    /\ indexedAt = null
    /\ isIndexing = FALSE
    /\ now = 1
    /\ hasRoot \in BOOLEAN
    /\ hasEmbedding \in BOOLEAN
    /\ req = [r \in Reqs |-> NoReq]
    /\ build = [r \in Reqs |-> NoBuild]
    /\ resp = NoResp
    /\ passes = 0
    /\ snapPass = 0
    /\ sem = NoSem
    /\ call = NoCall

(***************************************************************************)
(* VectorStore and the staleness test.                                     *)
(***************************************************************************)
\* indexExpired as it would be with the comparison of line 309 turned round
indexExpiredInverted ==
    IF indexedAt = null THEN TRUE
    ELSE now - indexedAt < INDEX_TTL

indexExpired ==
    IF indexedAt = null THEN TRUE
    ELSE now - indexedAt > INDEX_TTL

\* the chunks store.search scores over the array `its`: it maps over this.items
\* in one synchronous call
scoredChunks(its) ==
    [i \in 1..Len(its) |-> <<its[i].fileId, its[i].chunkId[2], its[i].pass>>]

(***************************************************************************)
(* The handlers' continuations.  They read the store as the step leaves    *)
(* it (items'), since a continuation may follow an install in one step.    *)
(***************************************************************************)
\* GET /health: a synchronous read of the store and the flag
health ==
    [ok |-> TRUE, hasRootFolder |-> hasRoot, indexed |-> Len(items) > 0,
     indexedAt |-> indexedAt, indexing |-> isIndexing]

\* res.json(...) / res.status(...).json(...): the handler of r ends
Respond(r, rq, body) ==
    /\ resp' = [body EXCEPT !.kind = rq.kind, !.found = rq.found,
                            !.built = rq.built, !.seenPass = rq.seenPass]
    /\ req' = [req EXCEPT ![r] = DoneReq]
\* Retrieve as it would be if the handler called semanticSearch without looking
\* at store.items.length
RetrieveWithoutEmptyCheck(r, rq) ==
    /\ req' = [req EXCEPT ![r] =
            [rq EXCEPT !.pc = "embedQuery", !.seenPass = snapPass']]
    /\ resp' = NoResp

\* lines 509-524: the empty-index answer, or the call of semanticSearch, which
\* runs up to its `await embedText(userQuery)`
Retrieve(r, rq) ==
    IF Len(items') = 0
    THEN Respond(r, rq, [NoResp EXCEPT !.status = 200, !.ok = TRUE,
                                       !.note = "empty_index"])
    ELSE /\ req' = [req EXCEPT ![r] =
                [rq EXCEPT !.pc = "embedQuery", !.seenPass = snapPass']]
         /\ resp' = NoResp

\* SearchContinues as it would be without the .catch of line 504: a rejected
\* buildIndex reaches the handler's catch and is answered 500
SearchContinuesUncaught(r, rq, outcome) ==
    IF outcome \in Errors
    THEN Respond(r, [rq EXCEPT !.built = outcome],
                 [NoResp EXCEPT !.status = 500, !.note = "internal_error"])
    ELSE Retrieve(r, [rq EXCEPT !.built = outcome])

\* lines 504-524: `await buildIndex().catch(...)` resumes in POST /, whether
\* buildIndex resolved or rejected
SearchContinues(r, rq, outcome) ==
    Retrieve(r, [rq EXCEPT !.built = outcome])

\* lines 451-456: `await buildIndex()` resumes in POST /reindex
ReindexContinues(r, rq, outcome, out) ==
    IF outcome \in Errors
    THEN Respond(r, [rq EXCEPT !.built = outcome],
                 [NoResp EXCEPT !.status = 500, !.note = outcome])
    ELSE Respond(r, [rq EXCEPT !.built = outcome],
                 [NoResp EXCEPT !.status = 200, !.ok = TRUE, !.note = out.note,
                                !.out = out])

\* buildIndex settles: its invocation is over and the handler awaiting it goes on
Settle(r, rq, outcome, out) ==
    /\ build' = [build EXCEPT ![r] = NoBuild]
    /\ IF rq.kind = "search"
       THEN SearchContinues(r, rq, outcome)
       ELSE ReindexContinues(r, rq, outcome, out)

(***************************************************************************)
(* buildIndex.                                                             *)
(***************************************************************************)
\* Install as it would be if the new chunks were pushed onto the live array
\* instead of replacing it
InstallAppending(r, b) ==
    /\ items' = items \o b.newItems
    /\ indexedAt' = now
    /\ isIndexing' = FALSE
    /\ snapPass' = b.pass
    /\ Settle(r, req[r], "built",
              [ok |-> TRUE, note |-> "built", indexedAt |-> now,
               stats |-> [startedAt |-> b.startedAt, indexedAt |-> now,
                          totalFiles |-> Len(b.files),
                          indexedFiles |-> b.indexedFiles,
                          skippedNoText |-> b.skippedNoText,
                          totalChunks |-> b.totalChunks]])
\* Install as it would be without line 358 (the timestamp is left as it was)
InstallWithoutTimestamp(r, b) ==
    /\ items' = b.newItems
    /\ indexedAt' = indexedAt
    /\ isIndexing' = FALSE
    /\ snapPass' = b.pass
    /\ Settle(r, req[r], "built",
              [ok |-> TRUE, note |-> "built", indexedAt |-> indexedAt,
               stats |-> [startedAt |-> b.startedAt, indexedAt |-> indexedAt,
                          totalFiles |-> Len(b.files),
                          indexedFiles |-> b.indexedFiles,
                          skippedNoText |-> b.skippedNoText,
                          totalChunks |-> b.totalChunks]])

\* lines 357-371: install the snapshot, clear the flag, return the stats
Install(r, b) ==
    /\ items' = b.newItems
    /\ indexedAt' = now
    /\ isIndexing' = FALSE
    /\ snapPass' = b.pass
    /\ Settle(r, req[r], "built",
              [ok |-> TRUE, note |-> "built", indexedAt |-> now,
               stats |-> [startedAt |-> b.startedAt, indexedAt |-> now,
                          totalFiles |-> Len(b.files),
                          indexedFiles |-> b.indexedFiles,
                          skippedNoText |-> b.skippedNoText,
                          totalChunks |-> b.totalChunks]])
\* NextFile as it would be if the loop left out the last file of the listing
NextFileStopsEarly(r, b) ==
    IF b.fi + 1 < Len(b.files)
    THEN /\ build' = [build EXCEPT ![r] =
                [b EXCEPT !.pc = "getText", !.fi = b.fi + 1, !.chunks = <<>>, !.ci = 0]]
         /\ resp' = NoResp
         /\ UNCHANGED <<items, indexedAt, isIndexing, snapPass, req>>
    ELSE Install(r, b)

\* the `for (const f of files)` loop head after file b.fi is finished: await
\* getFileText of the next file, or fall out of the loop and install
NextFile(r, b) ==
    IF b.fi < Len(b.files)
    THEN /\ build' = [build EXCEPT ![r] =
                [b EXCEPT !.pc = "getText", !.fi = b.fi + 1, !.chunks = <<>>, !.ci = 0]]
         /\ resp' = NoResp
         /\ UNCHANGED <<items, indexedAt, isIndexing, snapPass, req>>
    ELSE Install(r, b)

\* lines 322-325: no pass is executing: set the flag and await the listing
StartPass(r, rq) ==
    /\ isIndexing' = TRUE
    /\ passes' = passes + 1
    /\ build' = [build EXCEPT ![r] =
           [NoBuild EXCEPT !.pc = "listing", !.startedAt = now, !.pass = passes + 1,
               !.before = [items |-> items, indexedAt |-> indexedAt]]]
    /\ req' = [req EXCEPT ![r] = [rq EXCEPT !.pc = "awaitBuild"]]
    /\ resp' = NoResp
    /\ UNCHANGED <<items, indexedAt, snapPass>>

\* lines 318-319: buildIndex rejects before it touches anything
RejectCall(r, rq, message) ==
    /\ UNCHANGED <<items, indexedAt, snapPass, isIndexing, passes>>
    /\ Settle(r, rq, message, NoOut)

\* BuildIndexCall as it would be without the isIndexing test of line 321
BuildIndexCallUnguarded(r, rq) ==
    IF ~hasRoot THEN RejectCall(r, rq, "missing_ROOT_FOLDER_ID")
    ELSE IF ~hasEmbedding THEN RejectCall(r, rq, "embedding_model_not_initialized")
    ELSE StartPass(r, rq)

\* BuildIndexCall as it would be if a pass began with store.clear()
BuildIndexCallClearing(r, rq) ==
    IF ~hasRoot THEN RejectCall(r, rq, "missing_ROOT_FOLDER_ID")
    ELSE IF ~hasEmbedding THEN RejectCall(r, rq, "embedding_model_not_initialized")
    ELSE IF isIndexing
    THEN /\ UNCHANGED <<items, indexedAt, snapPass, isIndexing, passes>>
         /\ Settle(r, rq, "indexing_in_progress",
                   [ok |-> TRUE, note |-> "indexing_in_progress",
                    indexedAt |-> indexedAt, stats |-> NoStats])
    ELSE /\ isIndexing' = TRUE
         /\ passes' = passes + 1
         /\ build' = [build EXCEPT ![r] =
                [NoBuild EXCEPT !.pc = "listing", !.startedAt = now,
                    !.pass = passes + 1,
                    !.before = [items |-> items, indexedAt |-> indexedAt]]]
         /\ req' = [req EXCEPT ![r] = [rq EXCEPT !.pc = "awaitBuild"]]
         /\ resp' = NoResp
         /\ items' = <<>>
         /\ indexedAt' = null
         /\ UNCHANGED snapPass

\* BuildIndexCall as it would be if the in-progress status carried the time of
\* the call instead of the active snapshot's timestamp
BuildIndexCallStampsNow(r, rq) ==
    IF ~hasRoot THEN RejectCall(r, rq, "missing_ROOT_FOLDER_ID")
    ELSE IF ~hasEmbedding THEN RejectCall(r, rq, "embedding_model_not_initialized")
    ELSE IF isIndexing
    THEN /\ UNCHANGED <<items, indexedAt, snapPass, isIndexing, passes>>
         /\ Settle(r, rq, "indexing_in_progress",
                   [ok |-> TRUE, note |-> "indexing_in_progress",
                    indexedAt |-> now, stats |-> NoStats])
    ELSE StartPass(r, rq)

\* lines 318-325: the synchronous head of buildIndex, called by the handler of
\* r whose record is rq: it settles at once, or starts a pass
BuildIndexCall(r, rq) ==
    IF ~hasRoot THEN RejectCall(r, rq, "missing_ROOT_FOLDER_ID")
    ELSE IF ~hasEmbedding THEN RejectCall(r, rq, "embedding_model_not_initialized")
    ELSE IF isIndexing
    THEN /\ UNCHANGED <<items, indexedAt, snapPass, isIndexing, passes>>
         /\ Settle(r, rq, "indexing_in_progress",
                   [ok |-> TRUE, note |-> "indexing_in_progress",
                    indexedAt |-> indexedAt, stats |-> NoStats])
    ELSE StartPass(r, rq)

\* line 325 resolves: the file list arrives
ListingDone(r, fs) ==
    /\ build[r].pc = "listing"
    /\ NextFile(r, [build[r] EXCEPT !.files = fs, !.fi = 0])
    /\ UNCHANGED <<now, hasRoot, hasEmbedding, passes, sem, call>>

\* line 325 rejects: buildIndex rejects, nothing after line 325 runs
ListingThrows(r) ==
    /\ build[r].pc = "listing"
    /\ UNCHANGED <<items, indexedAt, isIndexing, snapPass>>
    /\ Settle(r, req[r], "listing_failed", NoOut)
    /\ UNCHANGED <<now, hasRoot, hasEmbedding, passes, sem, call>>
\* TextArrived as it would be if the text were handed to the embedding provider
\* whole whenever chunkText yields no chunk
TextArrivedEmbedsUnchunked(r, text) ==
    LET b      == build[r]
        chunks == IF Len(chunkText(text)) = 0 THEN <<text>> ELSE chunkText(text)
    IN  /\ build' = [build EXCEPT ![r] =
               [b EXCEPT !.pc = "embed", !.chunks = chunks, !.ci = 1]]
        /\ resp' = NoResp
        /\ UNCHANGED <<items, indexedAt, isIndexing, snapPass, req>>

\* lines 333-341 with the text of file files[fi] in hand
TextArrived(r, text) ==
    LET b      == build[r]
        chunks == chunkText(text)
    IN  IF Len(chunks) = 0
        THEN NextFile(r, [b EXCEPT !.skippedNoText = b.skippedNoText + 1])
        ELSE /\ build' = [build EXCEPT ![r] =
                    [b EXCEPT !.pc = "embed", !.chunks = chunks, !.ci = 1]]
             /\ resp' = NoResp
             /\ UNCHANGED <<items, indexedAt, isIndexing, snapPass, req>>

\* line 333: getFileText resolves with some text
GetTextDone(r) ==
    /\ build[r].pc = "getText"
    /\ \E text \in Texts(build[r].files[build[r].fi]) : TextArrived(r, text)
    /\ UNCHANGED <<now, hasRoot, hasEmbedding, passes, sem, call>>
\* GetTextFails as it would be without the .catch(() => "") of line 333: the
\* rejection of getFileText rejects buildIndex
GetTextFailsRejects(r) ==
    /\ build[r].pc = "getText"
    /\ UNCHANGED <<items, indexedAt, isIndexing, snapPass>>
    /\ Settle(r, req[r], "listing_failed", NoOut)
    /\ UNCHANGED <<now, hasRoot, hasEmbedding, passes, sem, call>>

\* line 333: getFileText rejects and .catch(() => "") turns it into ""
GetTextFails(r) ==
    /\ build[r].pc = "getText"
    /\ TextArrived(r, <<>>)
    /\ UNCHANGED <<now, hasRoot, hasEmbedding, passes, sem, call>>
\* EmbedDone as it would be if each chunk were pushed onto store.items as soon
\* as it is embedded, instead of onto the local newItems
EmbedDoneInPlace(r) ==
    /\ build[r].pc = "embed"
    /\ LET b    == build[r]
           f    == b.files[b.fi]
           i    == b.ci - 1
           item == [chunkId |-> chunkIdOf(f, i), fileId |-> f, fileName |-> FileName(f),
                    text |-> b.chunks[b.ci],
                    vector |-> embedding(b.chunks[b.ci]), pass |-> b.pass]
           b1   == [b EXCEPT !.newItems = Append(b.newItems, item),
                             !.totalChunks = b.totalChunks + 1]
       IN  IF b.ci < Len(b.chunks)
           THEN /\ build' = [build EXCEPT ![r] = [b1 EXCEPT !.ci = b.ci + 1]]
                /\ resp' = NoResp
                /\ items' = Append(items, item)
                /\ UNCHANGED <<indexedAt, isIndexing, snapPass, req>>
           ELSE NextFile(r, [b1 EXCEPT !.indexedFiles = b.indexedFiles + 1])
    /\ UNCHANGED <<now, hasRoot, hasEmbedding, passes, sem, call>>

\* lines 342-354: embedText resolved for chunk ci of the current file
EmbedDone(r) ==
    /\ build[r].pc = "embed"
    /\ LET b    == build[r]
           f    == b.files[b.fi]
           i    == b.ci - 1
           item == [chunkId |-> chunkIdOf(f, i), fileId |-> f, fileName |-> FileName(f),
                    text |-> b.chunks[b.ci],
                    vector |-> embedding(b.chunks[b.ci]), pass |-> b.pass]
           b1   == [b EXCEPT !.newItems = Append(b.newItems, item),
                             !.totalChunks = b.totalChunks + 1]
       IN  IF b.ci < Len(b.chunks)
           THEN /\ build' = [build EXCEPT ![r] = [b1 EXCEPT !.ci = b.ci + 1]]
                /\ resp' = NoResp
                /\ UNCHANGED <<items, indexedAt, isIndexing, snapPass, req>>
           ELSE NextFile(r, [b1 EXCEPT !.indexedFiles = b.indexedFiles + 1])
    /\ UNCHANGED <<now, hasRoot, hasEmbedding, passes, sem, call>>

\* EmbedThrows as it would be if the failure were caught per chunk: the chunk
\* is dropped and the loop goes on with the next one
EmbedThrowsSkipsChunk(r) ==
    /\ build[r].pc = "embed"
    /\ LET b == build[r]
       IN  IF b.ci < Len(b.chunks)
           THEN /\ build' = [build EXCEPT ![r] = [b EXCEPT !.ci = b.ci + 1]]
                /\ resp' = NoResp
                /\ UNCHANGED <<items, indexedAt, isIndexing, snapPass, req>>
           ELSE NextFile(r, [b EXCEPT !.indexedFiles = b.indexedFiles + 1])
    /\ UNCHANGED <<now, hasRoot, hasEmbedding, passes, sem, call>>

\* line 342: embedText rejects (provider error, or no embedding in the response);
\* nothing catches it inside buildIndex, so buildIndex rejects
EmbedThrows(r) ==
    /\ build[r].pc = "embed"
    /\ UNCHANGED <<items, indexedAt, isIndexing, snapPass>>
    /\ Settle(r, req[r], "embed_failed", NoOut)
    /\ UNCHANGED <<now, hasRoot, hasEmbedding, passes, sem, call>>

(***************************************************************************)
(* The endpoints.                                                          *)
(***************************************************************************)
\* requests are numbered in the order they arrive
MayArrive(r) ==
    /\ req[r].pc = "idle"
    /\ r > 1 => req[r - 1].pc # "idle"

\* lines 460-482: a POST / arrives; `valid` is whether body.query is a
\* non-empty string
PostSearch(r, valid) ==
    /\ MayArrive(r)
    /\ LET rq == [req[r] EXCEPT !.kind = "search"]
       IN  IF ~valid
           THEN Respond(r, rq, [NoResp EXCEPT !.status = 400, !.note = "bad_query"])
           ELSE IF ~hasRoot
           THEN Respond(r, rq, [NoResp EXCEPT !.status = 200, !.ok = TRUE,
                                              !.note = "no_root"])
           ELSE /\ req' = [req EXCEPT ![r] = [rq EXCEPT !.pc = "intent"]]
                /\ resp' = NoResp
    /\ UNCHANGED <<items, indexedAt, isIndexing, now, hasRoot, hasEmbedding, build,
                   passes, snapPass, sem, call>>
\* IntentResolved as it would be if the index were made ready before
\* intent.should_search is looked at
IntentResolvedIndexFirst(r, should) ==
    /\ req[r].pc = "intent"
    /\ IF (Len(items) = 0 \/ indexExpired) /\ AUTO_REINDEX_ON_EMPTY
       THEN BuildIndexCall(r, [req[r] EXCEPT
                !.found = IF Len(items) = 0 THEN "empty" ELSE "expired"])
       ELSE IF ~should
       THEN /\ Respond(r, req[r], [NoResp EXCEPT !.status = 200, !.ok = TRUE,
                                                 !.note = "no_search"])
            /\ UNCHANGED <<items, indexedAt, isIndexing, build, passes, snapPass>>
       ELSE /\ UNCHANGED <<items, indexedAt, isIndexing, build, passes, snapPass>>
            /\ Retrieve(r, [req[r] EXCEPT !.found = "fresh"])
    /\ UNCHANGED <<now, hasRoot, hasEmbedding, sem, call>>

\* lines 482-524: analyzeIntentAndRewrite has answered (it never rejects);
\* `should` is intent.should_search
IntentResolved(r, should) ==
    /\ req[r].pc = "intent"
    /\ IF ~should
       THEN /\ Respond(r, req[r], [NoResp EXCEPT !.status = 200, !.ok = TRUE,
                                                 !.note = "no_search"])
            /\ UNCHANGED <<items, indexedAt, isIndexing, build, passes, snapPass>>
       ELSE IF (Len(items) = 0 \/ indexExpired) /\ AUTO_REINDEX_ON_EMPTY
       THEN BuildIndexCall(r, [req[r] EXCEPT
                !.found = IF Len(items) = 0 THEN "empty" ELSE "expired"])
       ELSE /\ UNCHANGED <<items, indexedAt, isIndexing, build, passes, snapPass>>
            /\ Retrieve(r, [req[r] EXCEPT !.found = "fresh"])
    /\ UNCHANGED <<now, hasRoot, hasEmbedding, sem, call>>

\* lines 380-414 and 526-536: embedText(userQuery) resolved; store.search and
\* the aggregation run synchronously and the response is sent
QueryEmbedded(r) ==
    /\ req[r].pc = "embedQuery"
    /\ hasEmbedding
    /\ Respond(r, req[r], [NoResp EXCEPT !.status = 200, !.ok = TRUE,
                                         !.note = "results",
                                         !.scored = scoredChunks(items),
                                         !.indexedAt = indexedAt])
    /\ UNCHANGED <<items, indexedAt, isIndexing, now, hasRoot, hasEmbedding, build,
                   passes, snapPass, sem, call>>
\* QueryEmbedThrows as it would be without the handler's try/catch: the
\* rejection leaves the handler and no response is sent
QueryEmbedThrowsUncaught(r) ==
    /\ req[r].pc = "embedQuery"
    /\ req' = [req EXCEPT ![r] = [req[r] EXCEPT !.pc = "crashed"]]
    /\ resp' = NoResp
    /\ UNCHANGED <<items, indexedAt, isIndexing, now, hasRoot, hasEmbedding, build,
                   passes, snapPass, sem, call>>

\* line 380 rejects; the handler's catch (lines 537-540) answers 500
QueryEmbedThrows(r) ==
    /\ req[r].pc = "embedQuery"
    /\ Respond(r, req[r], [NoResp EXCEPT !.status = 500, !.note = "internal_error"])
    /\ UNCHANGED <<items, indexedAt, isIndexing, now, hasRoot, hasEmbedding, build,
                   passes, snapPass, sem, call>>

\* lines 449-456: a POST /reindex arrives and calls buildIndex
PostReindex(r) ==
    /\ MayArrive(r)
    /\ BuildIndexCall(r, [req[r] EXCEPT !.kind = "reindex"])
    /\ UNCHANGED <<now, hasRoot, hasEmbedding, sem, call>>

\* time passes
Tick ==
    /\ now < MaxClock
    /\ now' = now + 1
    /\ resp' = NoResp
    /\ UNCHANGED <<items, indexedAt, isIndexing, hasRoot, hasEmbedding, req, build,
                   passes, snapPass, sem, call>>

Next ==
    \/ \E r \in Reqs, valid \in BOOLEAN : PostSearch(r, valid)
    \/ \E r \in Reqs, should \in BOOLEAN : IntentResolved(r, should)
    \/ \E r \in Reqs : QueryEmbedded(r)
    \/ \E r \in Reqs : QueryEmbedThrows(r)
    \/ \E r \in Reqs : PostReindex(r)
    \/ \E r \in Reqs, fs \in Listings : ListingDone(r, fs)
    \/ \E r \in Reqs : ListingThrows(r)
    \/ \E r \in Reqs : GetTextDone(r)
    \/ \E r \in Reqs : GetTextFails(r)
    \/ \E r \in Reqs : EmbedDone(r)
    \/ \E r \in Reqs : EmbedThrows(r)
    \/ Tick

Spec ==
    Init /\ [][Next]_vars

\* the provider call that request r's handler, or the buildIndex invocation it
\* awaits, is waiting for returns or throws
ProviderAnswers(r) ==
    \/ \E should \in BOOLEAN : IntentResolved(r, should)
    \/ QueryEmbedded(r)
    \/ QueryEmbedThrows(r)
    \/ \E fs \in Listings : ListingDone(r, fs)
    \/ ListingThrows(r)
    \/ GetTextDone(r)
    \/ GetTextFails(r)
    \/ EmbedDone(r)
    \/ EmbedThrows(r)

\* Spec with every external provider call eventually returning or throwing
FairSpec ==
    Spec /\ \A r \in Reqs : WF_vars(ProviderAnswers(r))

(***************************************************************************)
(* semanticSearch taken alone: the store holds any snapshot a pass may     *)
(* have installed, and one call is made with any query vector and          *)
(* threshold.                                                              *)
(***************************************************************************)
SearchInit ==
    /\ \E n \in 0..MaxChunks :
          \E fs \in ChunkFiles(n), vs \in [1..n -> Vecs] :
              items = SnapshotOf(fs, vs)
    /\ indexedAt = 1
    /\ isIndexing = FALSE
    /\ now = 1
    /\ hasRoot = TRUE
    /\ hasEmbedding = TRUE
    /\ req = [r \in Reqs |-> NoReq]
    /\ build = [r \in Reqs |-> NoBuild]
    /\ resp = NoResp
    /\ passes = 1
    /\ snapPass = 1
    /\ sem = NoSem
    /\ call = NoCall

\* lines 381-427: embedText(userQuery) has resolved with qVec; semanticSearch
\* runs to its return without another await
SemanticSearchReturns(qVec, minSimilarity) ==
    /\ sem.pc = "idle"
    /\ sem' = [pc |-> "returned", qVec |-> qVec, minSimilarity |-> minSimilarity]
                @@ semanticSearch(items, indexedAt, qVec, minSimilarity)
    /\ UNCHANGED <<items, indexedAt, isIndexing, now, hasRoot, hasEmbedding, req,
                   build, resp, passes, snapPass, call>>

SearchNext ==
    \E qVec \in QVecs, minSimilarity \in MinSims :
        SemanticSearchReturns(qVec, minSimilarity)

SearchSpec ==
    SearchInit /\ [][SearchNext]_vars

(***************************************************************************)
(* Query understanding taken alone: analyzeIntentAndRewrite (lines 84-165) *)
(* and the handler's resolution of the query text and of the threshold     *)
(* (lines 497-500).  A text is a sequence of tokens; the token "members"   *)
(* stands for the members of a JSON object, which the provider's answer    *)
(* carries beside its text.  Thresholds are in hundredths here.            *)
(***************************************************************************)
\* JavaScript values: the members of the provider's JSON and process.env
jsValue(t, b, n, s) ==
    [t |-> t, b |-> b, n |-> n, s |-> s]
jsUndefined ==
    jsValue("undefined", FALSE, 0, <<>>)
jsNull ==
    jsValue("null", FALSE, 0, <<>>)
NaN ==
    jsValue("NaN", FALSE, 0, <<>>)
Bool(b) ==
    jsValue("boolean", b, 0, <<>>)
Num(n) ==
    jsValue("number", FALSE, n, <<>>)
Str(s) ==
    jsValue("string", FALSE, 0, s)

typeof(v) ==
    CASE v.t = "NaN" -> "number"
      [] v.t = "null" -> "object"
      [] OTHER -> v.t

\* JavaScript's ToBoolean, as `||` and `!` apply it
truthy(v) ==
    CASE v.t = "boolean" -> v.b
      [] v.t = "number" -> v.n # 0
      [] v.t = "string" -> v.s # <<>>
      [] OTHER -> FALSE

\* Math.max and Math.min: NaN if either argument is NaN
mathMax(a, b) ==
    IF a.t = "NaN" \/ b.t = "NaN" THEN NaN ELSE Num(Max(a.n, b.n))
mathMin(a, b) ==
    IF a.t = "NaN" \/ b.t = "NaN" THEN NaN ELSE Num(Min(a.n, b.n))

Digits ==
    <<"0", "1", "2", "3", "4", "5", "6", "7", "8", "9">>
IsDigit(c) ==
    \E d \in 1..10 : Digits[d] = c
digit(c) ==
    (CHOOSE d \in 1..10 : Digits[d] = c) - 1

\* Number(s) of a string, in hundredths: a digit, optionally followed by a
\* point and one or two digits; any other text in use here is not a number
Number(s) ==
    IF Len(s) = 1 /\ IsDigit(s[1])
    THEN Num(100 * digit(s[1]))
    ELSE IF Len(s) = 3 /\ IsDigit(s[1]) /\ s[2] = "." /\ IsDigit(s[3])
    THEN Num(100 * digit(s[1]) + 10 * digit(s[3]))
    ELSE IF /\ Len(s) = 4 /\ IsDigit(s[1]) /\ s[2] = "."
            /\ IsDigit(s[3]) /\ IsDigit(s[4])
    THEN Num(100 * digit(s[1]) + 10 * digit(s[3]) + digit(s[4]))
    ELSE NaN

\* line 33: Number(process.env.DEFAULT_MIN_SIMILARITY || 0.72)
DEFAULT_MIN_SIMILARITY(env) ==
    IF truthy(env) THEN Number(env.s) ELSE Num(72)

\* JSON.parse: the text is one object, or the literal null, between optional
\* white space; anything else throws
jsonParse(text) ==
    LET t == trim(text)
    IN  IF t = <<"{", "members", "}">> THEN "object"
        ELSE IF t = <<"null">> THEN "null"
        ELSE "throws"

\* the tokens for three backquotes and for three backquotes followed by "json"
fence ==
    "fence"
fenceJson ==
    "fence json"

\* line 87, the two replace calls: the first fenceJson goes with the white
\* space after it, every fence goes, and a later fenceJson leaves "json"
RECURSIVE removeFences(_, _, _)
removeFences(raw, first, eating) ==
    IF raw = <<>> THEN <<>>
    ELSE LET c == Head(raw)
             rest == Tail(raw)
         IN  IF eating /\ IsWs(c) THEN removeFences(rest, first, TRUE)
             ELSE IF c = fenceJson /\ first THEN removeFences(rest, FALSE, TRUE)
             ELSE IF c = fenceJson THEN <<"json">> \o removeFences(rest, first, FALSE)
             ELSE IF c = fence THEN removeFences(rest, first, FALSE)
             ELSE <<c>> \o removeFences(rest, first, FALSE)

\* raw.indexOf(c) and raw.lastIndexOf(c), counted from 1; 0 if absent
indexOf(raw, c) ==
    IF \E i \in 1..Len(raw) : raw[i] = c
    THEN CHOOSE i \in 1..Len(raw) : raw[i] = c /\ \A j \in 1..(i - 1) : raw[j] # c
    ELSE 0
lastIndexOf(raw, c) ==
    IF \E i \in 1..Len(raw) : raw[i] = c
    THEN CHOOSE i \in 1..Len(raw) :
             raw[i] = c /\ \A j \in (i + 1)..Len(raw) : raw[j] # c
    ELSE 0

\* lines 84-97: "object" if one of the three attempts parses an object,
\* "null" if none parses or the text is the literal null
safeJsonParse(raw) ==
    IF raw = <<>> THEN "null"
    ELSE IF jsonParse(raw) # "throws" THEN jsonParse(raw)
    ELSE LET noFences == trim(removeFences(raw, TRUE, FALSE))
             a == indexOf(raw, "{")
             b == lastIndexOf(raw, "}")
         IN  IF jsonParse(noFences) # "throws" THEN jsonParse(noFences)
             ELSE IF a # 0 /\ b # 0 /\ b > a /\ jsonParse(SubSeq(raw, a, b)) # "throws"
             THEN jsonParse(SubSeq(raw, a, b))
             ELSE "null"

\* lines 105-111
fallback(userQuery) ==
    [should_search |-> TRUE, rewritten_query |-> trim(userQuery),
     min_similarity |-> jsNull, reason |-> "fallback_no_vertex_or_parse_error"]

\* analyzeIntentAndRewrite as it would be if it took should_search from the
\* parsed object without looking at its type
analyzeIntentTrustingAnswer(userQuery, geminiModel, answer) ==
    IF ~geminiModel \/ answer.throws THEN fallback(userQuery)
    ELSE LET parsed == answer.members
         IN  IF safeJsonParse(trim(answer.text)) # "object" THEN fallback(userQuery)
             ELSE [should_search |-> truthy(parsed.should_search),
                   rewritten_query |-> IF truthy(parsed.rewritten_query)
                                       THEN trim(parsed.rewritten_query.s) ELSE <<>>,
                   min_similarity |-> IF typeof(parsed.min_similarity) = "number"
                                      THEN parsed.min_similarity ELSE jsNull,
                   reason |-> "ok"]

\* lines 104-165: geminiModel says whether the model was initialised; answer is
\* what generateContent did: it threw, or it gave a text
analyzeIntentAndRewrite(userQuery, geminiModel, answer) ==
    IF ~geminiModel \/ answer.throws THEN fallback(userQuery)
    ELSE LET parsed == answer.members
         IN  IF \/ safeJsonParse(trim(answer.text)) # "object"
                \/ typeof(parsed.should_search) # "boolean"
             THEN fallback(userQuery)
             ELSE [should_search |-> parsed.should_search.b,
                   rewritten_query |-> IF truthy(parsed.rewritten_query)
                                       THEN trim(parsed.rewritten_query.s) ELSE <<>>,
                   min_similarity |-> IF typeof(parsed.min_similarity) = "number"
                                      THEN parsed.min_similarity ELSE jsNull,
                   reason |-> "ok"]

\* line 497
rewrittenOf(intent, query) ==
    IF intent.rewritten_query # <<>> THEN intent.rewritten_query ELSE trim(query)

\* lines 498-500
minSimOf(intent, env) ==
    IF typeof(intent.min_similarity) = "number"
    THEN mathMin(Num(85), mathMax(Num(60), intent.min_similarity))
    ELSE DEFAULT_MIN_SIMILARITY(env)

\* the inputs: queries that passed validation, the environment, the objects
\* and the texts the provider may answer
Queries ==
    {<<"q">>, <<" ", "q", " ">>}
Envs ==
    {jsUndefined, Str(<<>>), Str(<<"0", ".", "7">>), Str(<<"0", ".", "9">>),
     Str(<<"a">>)}
Members ==
    [should_search : {Bool(TRUE), Bool(FALSE), Str(<<"y">>), jsUndefined},
     rewritten_query : {jsUndefined, Str(<<>>), Str(<<" ", "r">>)},
     min_similarity : {jsUndefined, jsNull, Str(<<"0", ".", "7">>),
                       Num(50), Num(70), Num(90)}]
AnswerTexts ==
    {<<>>, <<"x">>, <<"null">>, <<"{", "members">>, <<"}", "members", "{">>,
     <<"{", "members", "}">>, <<" ", "{", "members", "}", "\n">>,
     <<fenceJson, "\n", "{", "members", "}", "\n", fence>>,
     <<"x", " ", "{", "members", "}", " ", "x">>}
Answers ==
    [throws : BOOLEAN, text : AnswerTexts, members : Members]

\* the handler gets as far as analyzeIntentAndRewrite only with ROOT_FOLDER_ID
UnderstandInit ==
    Init /\ hasRoot

\* lines 482-500 without the store: the intent, whether the handler goes on to
\* the index and the search, and the text and threshold it will pass to
\* semanticSearch
QueryUnderstood(query, env, geminiModel, answer) ==
    /\ call.fn = "none"
    /\ LET intent == analyzeIntentAndRewrite(query, geminiModel, answer)
       IN  call' = [fn |-> "understand", query |-> query, env |-> env,
                    geminiModel |-> geminiModel, answer |-> answer,
                    intent |-> intent, proceeds |-> intent.should_search,
                    rewritten |-> rewrittenOf(intent, query),
                    minSim |-> minSimOf(intent, env)]
    /\ UNCHANGED <<items, indexedAt, isIndexing, now, hasRoot, hasEmbedding, req,
                   build, resp, passes, snapPass, sem>>

UnderstandNext ==
    /\ call.fn = "none"
    /\ \E query \in Queries, env \in Envs, geminiModel \in BOOLEAN,
          answer \in Answers :
            QueryUnderstood(query, env, geminiModel, answer)

UnderstandSpec ==
    UnderstandInit /\ [][UnderstandNext]_vars

(***************************************************************************)
(* chunkText taken alone: one call with any text of up to MaxTextLen       *)
(* characters.                                                             *)
(***************************************************************************)
Chars ==
    {"a", "b", " ", "\n"}
TextsUpTo(n) ==
    UNION {[1..k -> Chars] : k \in 0..n}

ChunkInit ==
    Init

\* lines 246-261: chunkText runs to its return (it awaits nothing)
ChunkTextReturns(text) ==
    /\ call.fn = "none"
    /\ call' = [fn |-> "chunkText", text |-> text, chunks |-> chunkText(text)]
    /\ UNCHANGED <<items, indexedAt, isIndexing, now, hasRoot, hasEmbedding, req,
                   build, resp, passes, snapPass, sem>>

ChunkNext ==
    /\ call.fn = "none"
    /\ \E text \in TextsUpTo(MaxTextLen) : ChunkTextReturns(text)

ChunkSpec ==
    ChunkInit /\ [][ChunkNext]_vars

(***************************************************************************)
(* rankearPorContexto and ordenarPorContexto (src/index.js) taken alone:   *)
(* one call with any list of candidate files, any outcome of getFileText   *)
(* for each of them and any answer of the generative model.  Scores are in *)
(* tenths.  A file is its id.                                              *)
(***************************************************************************)
\* the candidate lists: each file once, in any order
FileLists ==
    UNION {{fl \in [1..k -> 1..MaxFiles] :
                \A i, j \in 1..k : i # j => fl[i] # fl[j]} : k \in 0..MaxFiles}

\* what getFileText does for each file: it throws, or it gives "" or a text
FileTexts ==
    [1..MaxFiles -> {"throws", "empty", "text"}]

\* an entry of parsed.ranking; fileId 0: the entry has no fileId; fileId
\* MaxFiles + 1: an id that is not one of the files
rankingEntry(fileId, score) ==
    [fileId |-> fileId, score |-> score]

\* the entry null, on which r.fileId throws a TypeError
nullEntry ==
    rankingEntry(-1, jsNull)

Scores ==
    {jsUndefined, Num(3), Num(4), Num(9), Num(12)}

\* the ranking with one entry for each file g gives a score to (jsNull: no
\* entry), the files in decreasing order of id
rankingFor(g) ==
    LET all == [i \in 1..MaxFiles |->
                   rankingEntry(MaxFiles + 1 - i, g[MaxFiles + 1 - i])]
    IN  SelectSeq(all, LAMBDA e : e.score # jsNull)

Rankings ==
    {rankingFor(g) : g \in [1..MaxFiles -> Scores \cup {jsNull}]}
        \cup {<<rankingEntry(0, Num(9))>>,
              <<rankingEntry(MaxFiles + 1, Num(9))>>,
              <<rankingEntry(1, Num(9)), rankingEntry(1, Num(3))>>,
              <<rankingEntry(1, Num(9)), nullEntry>>}

\* what generateContent and JSON.parse make of the request: the call throws,
\* the text is not JSON, it is the JSON null, it is an object without an array
\* `ranking`, or it is an object with the array `ranking`
RankAnswers ==
    [kind : {"throws", "invalid", "null", "noRanking"}, ranking : {<<>>}]
        \cup [kind : {"ranking"}, ranking : Rankings]

\* Map.prototype.set on a Map kept as a function of its keys
mapSet(m, k, v) ==
    [x \in DOMAIN m \cup {k} |-> IF x = k THEN v ELSE m[x]]

\* rankingMap.get(id) ?? 0
getOrZero(m, id) ==
    IF id \in DOMAIN m THEN m[id] ELSE 0

\* src/index.js lines 296-308: the Map after the first n entries of the ranking,
\* each score made a number and clamped to [0, 1]
RECURSIVE rankingMapClamped(_, _)
rankingMapClamped(ranking, n) ==
    IF n = 0 THEN <<>>
    ELSE LET m == rankingMapClamped(ranking, n - 1)
             r == ranking[n]
             s == IF r.score.t # "number" THEN 0 ELSE Max(0, Min(10, r.score.n))
         IN  IF r.fileId # 0 THEN mapSet(m, r.fileId, s) ELSE m

\* src/index.js lines 666-673: the Map after the first n entries of the ranking
RECURSIVE rankingMap(_, _)
rankingMap(ranking, n) ==
    IF n = 0 THEN <<>>
    ELSE LET m == rankingMap(ranking, n - 1)
             r == ranking[n]
         IN  IF r.fileId # 0
             THEN mapSet(m, r.fileId, IF truthy(r.score) THEN r.score.n ELSE 0)
             ELSE m

\* [...files].sort((a, b) => sb - sa) with the scores of the Map m
sortByScore(files, m) ==
    LET order == sortedOrder([i \in 1..Len(files) |-> getOrZero(m, files[i])],
                             Len(files))
    IN  [i \in 1..Len(files) |-> files[order[i]]]

\* lines 208-226 and 583-601: the files among the first MAX_DOCS_FOR_LLM that
\* gave a text
docsWithText(files, texts) ==
    SelectSeq(slice(files, 0, MAX_DOCS_FOR_LLM), LAMBDA f : texts[f] = "text")

\* forEach reaches an entry on which r.fileId throws
entryThrows(answer) ==
    \E i \in 1..Len(answer.ranking) : answer.ranking[i] = nullEntry

\* src/index.js lines 201-334
rankearPorContexto(files, generativeModel, texts, answer) ==
    IF ~generativeModel \/ Len(files) = 0 THEN files
    ELSE IF Len(docsWithText(files, texts)) = 0 THEN files
    ELSE IF answer.kind = "throws" THEN files
    ELSE IF answer.kind = "invalid" THEN <<>>
    ELSE IF answer.kind = "null" \/ entryThrows(answer) THEN files
    ELSE LET m        == rankingMapClamped(answer.ranking, Len(answer.ranking))
             sorted   == sortByScore(files, m)
             filtered == SelectSeq(sorted, LAMBDA f :
                             getOrZero(m, f) >= SEMANTIC_SCORE_THRESHOLD)
         IN  filtered

\* ordenarPorContexto as it would be if it sorted the files it sent to the
\* model instead of all the files
ordenarPorContextoTopOnly(files, generativeModel, texts, answer) ==
    IF ~generativeModel \/ Len(files) = 0 THEN files
    ELSE IF Len(docsWithText(files, texts)) = 0 THEN files
    ELSE IF answer.kind \in {"throws", "invalid", "null"} \/ entryThrows(answer)
    THEN files
    ELSE sortByScore(slice(files, 0, MAX_DOCS_FOR_LLM),
                     rankingMap(answer.ranking, Len(answer.ranking)))

\* src/index.js lines 576-687
ordenarPorContexto(files, generativeModel, texts, answer) ==
    IF ~generativeModel \/ Len(files) = 0 THEN files
    ELSE IF Len(docsWithText(files, texts)) = 0 THEN files
    ELSE IF answer.kind \in {"throws", "invalid", "null"} \/ entryThrows(answer)
    THEN files
    ELSE sortByScore(files, rankingMap(answer.ranking, Len(answer.ranking)))

ContextInit ==
    Init

\* the arguments and the outcomes of the awaits of the call looked at
contextCall(fn, files, generativeModel, texts, answer, result) ==
    [fn |-> fn, files |-> files, generativeModel |-> generativeModel,
     texts |-> texts, answer |-> answer, result |-> result]

\* src/index.js lines 201-334: a call of rankearPorContexto runs to its return
RankearPorContextoReturns(files, generativeModel, texts, answer) ==
    /\ call.fn = "none"
    /\ call' = contextCall("rankearPorContexto", files, generativeModel, texts,
                   answer, rankearPorContexto(files, generativeModel, texts, answer))
    /\ UNCHANGED <<items, indexedAt, isIndexing, now, hasRoot, hasEmbedding, req,
                   build, resp, passes, snapPass, sem>>

\* src/index.js lines 576-687: a call of ordenarPorContexto runs to its return
OrdenarPorContextoReturns(files, generativeModel, texts, answer) ==
    /\ call.fn = "none"
    /\ call' = contextCall("ordenarPorContexto", files, generativeModel, texts,
                   answer, ordenarPorContexto(files, generativeModel, texts, answer))
    /\ UNCHANGED <<items, indexedAt, isIndexing, now, hasRoot, hasEmbedding, req,
                   build, resp, passes, snapPass, sem>>

ContextNext ==
    /\ call.fn = "none"
    /\ \E files \in FileLists, generativeModel \in BOOLEAN, texts \in FileTexts,
          answer \in RankAnswers :
            \/ RankearPorContextoReturns(files, generativeModel, texts, answer)
            \/ OrdenarPorContextoReturns(files, generativeModel, texts, answer)

ContextSpec ==
    ContextInit /\ [][ContextNext]_vars
(***************************************************************************)
(* The answer of POST / in the three programs that search: the indexed one *)
(* (src/unnamed/part_002), the simple one that embeds every document at    *)
(* each request (src/unnamed/part_000) and the one that has the model      *)
(* rerank a Drive listing (src/unnamed/part_001).  `call` holds the body   *)
(* sent; the two programs without an index run with the empty store.       *)
(***************************************************************************)
Variants ==
    {"indexed", "simple", "rerank"}

\* the cosine of each document with the query, in hundredths
SimpleScores ==
    [1..MaxFiles -> {60, 65, 90}]

\* res.json({ok: true, total, archivos, ...})
okBody(variant, total, archivos) ==
    [fn |-> "answer", variant |-> variant, ok |-> TRUE, status |-> 200,
     total |-> total, archivos |-> archivos]

\* res.status(500).json({ok: false, error})
errorBody(variant) ==
    [fn |-> "answer", variant |-> variant, ok |-> FALSE, status |-> 500]

\* simpleAnswer as it would be without the .slice(0, TOP_K) of line 164
simpleAnswerUncut(files, texts, score) ==
    IF Len(files) = 0 THEN okBody("simple", 0, <<>>)
    ELSE LET kept   == SelectSeq(files, LAMBDA f :
                           texts[f] = "text" /\ score[f] >= MIN_SIMILARITY)
             scored == sortByScore(kept, score)
         IN  okBody("simple", Len(scored),
                    [i \in 1..Len(scored) |->
                        [id |-> scored[i], score |-> score[scored[i]]]])

\* src/unnamed/part_000 lines 127-170: no file, or the files whose text is not
\* empty (extractText gives "" when the export throws) and whose score reaches
\* MIN_SIMILARITY, by decreasing score; total counts them all, archivos holds
\* the first TOP_K
simpleAnswer(files, texts, score) ==
    IF Len(files) = 0 THEN okBody("simple", 0, <<>>)
    ELSE LET kept   == SelectSeq(files, LAMBDA f :
                           texts[f] = "text" /\ score[f] >= MIN_SIMILARITY)
             scored == sortByScore(kept, score)
             top    == slice(scored, 0, TOP_K)
         IN  okBody("simple", Len(scored),
                    [i \in 1..Len(top) |->
                        [id |-> top[i], score |-> score[top[i]]]])

\* src/unnamed/part_001 lines 189-193 (and 221-225, 293-297, 304-308, 344-348):
\* files.map((f, i) => ({fileId: f.id, score: 1 - i * 0.1, ...})), in tenths
defaultRanking(files) ==
    [i \in 1..Len(files) |-> [fileId |-> files[i], score |-> 10 - (i - 1)]]

\* src/unnamed/part_001 lines 185-351; the Map of lines 313-316 keeps the entry
\* and lines 318-322 and 331 read its score with `|| 0` and `?? 0`, which for
\* the scores of Scores is the Map of scores rankingMap builds
rerankAndAnswerWithLLM(files, generativeModel, texts, answer) ==
    IF ~generativeModel \/ Len(files) = 0 THEN defaultRanking(files)
    ELSE IF Len(docsWithText(files, texts)) = 0 THEN defaultRanking(files)
    ELSE IF \/ answer.kind \in {"throws", "invalid", "null", "noRanking"}
            \/ entryThrows(answer)
    THEN defaultRanking(files)
    ELSE LET m            == rankingMap(answer.ranking, Len(answer.ranking))
             orderedFiles == sortByScore(files, m)
         IN  [i \in 1..Len(orderedFiles) |->
                 [fileId |-> orderedFiles[i],
                  score |-> getOrZero(m, orderedFiles[i])]]

\* the program that runs, and its store: for the indexed one any snapshot of
\* documents of one chunk each
AnswerInit ==
    /\ \E variant \in Variants :
          /\ call = [fn |-> "none", variant |-> variant]
          /\ IF variant = "indexed"
             THEN \E n \in 0..NDocs :
                     \E fs \in ChunkFiles(n), vs \in [1..n -> Vecs] :
                         /\ \A j \in 1..(n - 1) : fs[j] < fs[j + 1]
                         /\ items = SnapshotOf(fs, vs)
             ELSE items = <<>>
    /\ indexedAt = 1
    /\ isIndexing = FALSE
    /\ now = 1
    /\ hasRoot = TRUE
    /\ hasEmbedding = TRUE
    /\ req = [r \in Reqs |-> NoReq]
    /\ build = [r \in Reqs |-> NoBuild]
    /\ resp = NoResp
    /\ passes = 1
    /\ snapPass = 1
    /\ sem = NoSem

\* src/unnamed/part_002 lines 460-541 with a valid query, the index fresh and
\* the intent resolved: the answer without search (lines 484-495), the answer
\* of the empty index (lines 509-521), the answer of semanticSearch (lines
\* 524-536) or, when embedText throws, the answer of the catch (lines 537-540)
IndexedAnswers(should_search, embedThrows, qVec, minSimilarity) ==
    /\ call.fn = "none"
    /\ call.variant = "indexed"
    /\ call' = IF ~should_search \/ Len(items) = 0
               THEN okBody("indexed", 0, <<>>)
               ELSE IF embedThrows THEN errorBody("indexed")
               ELSE LET result == semanticSearch(items, indexedAt, qVec,
                                                 minSimilarity)
                    IN  okBody("indexed", Len(result.archivos), result.archivos)
    /\ UNCHANGED <<items, indexedAt, isIndexing, now, hasRoot, hasEmbedding, req,
                   build, resp, passes, snapPass, sem>>

\* src/unnamed/part_000 lines 112-174 with a query: the listing has resolved
\* with files; embed throws (line 52, answered by the catch) or gives the
\* vectors whose cosines with the query are score
SimpleAnswers(files, embedThrows, texts, score) ==
    /\ call.fn = "none"
    /\ call.variant = "simple"
    /\ call' = IF Len(files) > 0 /\ embedThrows THEN errorBody("simple")
               ELSE simpleAnswer(files, texts, score)
    /\ UNCHANGED <<items, indexedAt, isIndexing, now, hasRoot, hasEmbedding, req,
                   build, resp, passes, snapPass, sem>>

\* src/unnamed/part_001 lines 356-403 with a valid query: drive.files.list
\* throws (answered by the catch) or resolves with files, and the answer
\* carries total: files.length and archivos: ranking
RerankAnswers(files, listThrows, generativeModel, texts, answer) ==
    /\ call.fn = "none"
    /\ call.variant = "rerank"
    /\ call' = IF listThrows THEN errorBody("rerank")
               ELSE okBody("rerank", Len(files),
                        rerankAndAnswerWithLLM(files, generativeModel, texts,
                                               answer))
    /\ UNCHANGED <<items, indexedAt, isIndexing, now, hasRoot, hasEmbedding, req,
                   build, resp, passes, snapPass, sem>>

AnswerNext ==
    /\ call.fn = "none"
    /\ \/ \E should_search, embedThrows \in BOOLEAN, qVec \in QVecs,
             minSimilarity \in MinSims :
               IndexedAnswers(should_search, embedThrows, qVec, minSimilarity)
       \/ \E files \in FileLists, embedThrows \in BOOLEAN, texts \in FileTexts,
             score \in SimpleScores :
               SimpleAnswers(files, embedThrows, texts, score)
       \/ \E files \in FileLists, listThrows, generativeModel \in BOOLEAN,
             texts \in FileTexts, answer \in RankAnswers :
               RerankAnswers(files, listThrows, generativeModel, texts, answer)

AnswerSpec ==
    AnswerInit /\ [][AnswerNext]_vars
(***************************************************************************)
(* VectorStore.cosine taken alone: one call with two vectors of any        *)
(* lengths up to MaxVecLen, the empty one included.  The components are    *)
(* numbers (embedText, line 187, has made them so), and the vectors are    *)
(* those of which every prefix has a whole norm of at most Norm, on which  *)
(* sqrt is exact.                                                          *)
(***************************************************************************)
Components ==
    {0, 44, -44, 117, Norm}

CosVecs ==
    {v \in UNION {[1..k -> Components] : k \in 0..MaxVecLen} :
        \A n \in 0..Len(v) : \E m \in 0..Norm : dot(v, v, n) = m * m}

CosineInit ==
    Init /\ hasRoot

\* lines 279-291: a call of VectorStore.cosine runs to its return
CosineReturns(a, b) ==
    /\ call.fn = "none"
    /\ call' = [fn |-> "cosine", a |-> a, b |-> b, result |-> cosine(a, b)]
    /\ UNCHANGED <<items, indexedAt, isIndexing, now, hasRoot, hasEmbedding, req,
                   build, resp, passes, snapPass, sem>>

CosineNext ==
    /\ call.fn = "none"
    /\ \E a \in CosVecs, b \in CosVecs : CosineReturns(a, b)

CosineSpec ==
    CosineInit /\ [][CosineNext]_vars

\* lines 247-249: the text the while loop of chunkText walks over
clippedOf(text) ==
    slice(trim(collapseWs(text)), 0, MAX_TEXT_CHARS_PER_FILE)

(***************************************************************************)
(* The while loop of chunkText, one iteration a step: a call with any      *)
(* normalised text, then the iterations up to the return.                  *)
(***************************************************************************)
\* the texts that line 247 leaves as they are
NormalTexts ==
    {t \in TextsUpTo(MaxTextLen) : trim(collapseWs(t)) = t}

\* nextStart as it would be if the window went back by its whole width
nextStartWholeWindowBack(end) ==
    Max(0, end - CHUNK_SIZE)

\* line 258
nextStart(end) ==
    Max(0, end - CHUNK_OVERLAP)

LoopInit ==
    Init

\* lines 246-252: chunkText is called; an empty text returns at line 248, any
\* other is clipped and the loop is entered with start = 0
ChunkTextCalled(text) ==
    /\ call.fn = "none"
    /\ call' = [fn |-> "chunkLoop", text |-> text, clipped |-> clippedOf(text),
                start |-> 0, chunks |-> <<>>, iterations |-> 0,
                pc |-> IF text = <<>> THEN "returned" ELSE "loop"]
    /\ UNCHANGED <<items, indexedAt, isIndexing, now, hasRoot, hasEmbedding, req,
                   build, resp, passes, snapPass, sem>>

\* lines 253-259: one iteration of the while loop, from its test to the next
ChunkIteration ==
    /\ call.fn = "chunkLoop"
    /\ call.pc = "loop"
    /\ IF ~(call.start < Len(call.clipped))
       THEN call' = [call EXCEPT !.pc = "returned"]
       ELSE LET end    == Min(call.start + CHUNK_SIZE, Len(call.clipped))
                piece  == trim(slice(call.clipped, call.start, end))
                pushed == IF piece # <<>> THEN Append(call.chunks, piece)
                          ELSE call.chunks
            IN  call' = [call EXCEPT
                    !.chunks = pushed,
                    !.iterations = call.iterations + 1,
                    !.start = IF end >= Len(call.clipped) THEN call.start
                              ELSE nextStart(end),
                    !.pc = IF end >= Len(call.clipped) THEN "returned" ELSE "loop"]
    /\ UNCHANGED <<items, indexedAt, isIndexing, now, hasRoot, hasEmbedding, req,
                   build, resp, passes, snapPass, sem>>

LoopNext ==
    \/ /\ call.fn = "none"
       /\ \E text \in NormalTexts : ChunkTextCalled(text)
    \/ ChunkIteration

\* the loop is synchronous code: an iteration that can run does run
LoopSpec ==
    LoopInit /\ [][LoopNext]_vars /\ WF_vars(ChunkIteration)

(***************************************************************************)
(* Properties.                                                             *)
(***************************************************************************)
\* the requests whose buildIndex invocation is executing a pass
Passing ==
    {r \in Reqs : build[r].pc \in Running}

\* request r's handler sends its response in this step
Responds(r) ==
    req[r].pc # "responded" /\ req'[r].pc = "responded"

\* the record of request r as this step leaves it (in the response, if the
\* handler has just ended)
After(r) ==
    IF Responds(r) THEN resp' ELSE req'[r]

Stale ==
    {"empty", "expired"}

\* the handler of r calls buildIndex in this step
Calls(r) ==
    \/ req[r].pc = "idle" /\ After(r).kind = "reindex"
    \/ req[r].pc = "intent" /\ After(r).found \in Stale

\* the pass of r's buildIndex invocation ends in this step
PassEnds(r) ==
    build[r].pc \in Running /\ build'[r].pc = "none"

\* C1: at most one build pass executes at any time, and a buildIndex call made
\* while a pass is executing starts no pass of its own (it never reaches
\* listAllFilesRecursively, getFileText or embedText).
C1_SinglePass ==
    [][/\ Cardinality(Passing') <= 1
       /\ \A r \in Reqs :
             (Calls(r) /\ Passing # {})
                 => /\ passes' = passes
                    /\ build'[r].pc = "none"
                    /\ Passing' = Passing]_vars

\* a pass is executing while a search request that was turned away by
\* buildIndex is already retrieving
C1_Witness ==
    \E r, q \in Reqs :
        /\ build[r].pc \in Running
        /\ req[q].pc = "embedQuery"
        /\ req[q].built = "indexing_in_progress"

\* C2: the step in which a running pass fails (the listing or an embedding call
\* throws) leaves store.items and store.indexedAt exactly as they were when the
\* pass started.
C2_FailedBuildKeepsStore ==
    [][\A r \in Reqs :
          (PassEnds(r) /\ After(r).built \in Errors)
              => /\ items' = build[r].before.items
                 /\ indexedAt' = build[r].before.indexedAt]_vars

\* POST /reindex has just been answered 500 because its pass failed, over an
\* existing, non-empty snapshot
C2_Witness ==
    /\ resp.kind = "reindex"
    /\ resp.status = 500
    /\ resp.built \in {"listing_failed", "embed_failed"}
    /\ Len(items) > 0
    /\ indexedAt # null

\* C3: a search scores the chunks of exactly one snapshot: every chunk a result
\* list was computed from belongs to the pass that installed the active snapshot,
\* the list covers that whole snapshot, and debug.indexedAt is its timestamp; and
\* store.items and store.indexedAt are only ever assigned together, in the one
\* step that ends a pass.
C3_SearchSeesOneSnapshot ==
    [][/\ \A r \in Reqs :
             (Responds(r) /\ resp'.note = "results")
                 => /\ \A i \in 1..Len(resp'.scored) : resp'.scored[i][3] = snapPass
                    /\ Len(resp'.scored) = Len(items)
                    /\ \A i \in 1..Len(items) : items[i].pass = snapPass
                    /\ resp'.indexedAt = indexedAt
       /\ (items' # items \/ indexedAt' # indexedAt)
             => \E r \in Reqs :
                   /\ PassEnds(r)
                   /\ After(r).built = "built"
                   /\ snapPass' = build[r].pass
                   /\ indexedAt' = now
                   /\ \A i \in 1..Len(items') : items'[i].pass = build[r].pass]_vars

\* a request that passed the index-ready step under one snapshot has just been
\* answered from the snapshot a later pass installed in the meantime
C3_Witness ==
    /\ resp.note = "results"
    /\ Len(resp.scored) > 0
    /\ resp.seenPass > 0
    /\ resp.scored[1][3] # resp.seenPass

\* C4: the flag GET /health reports as `indexing` is true exactly while a build
\* pass is executing.
C4_FlagAccurate ==
    health.indexing <=> Passing # {}

\* C5: an embedding failure never ends the pass: no buildIndex call is rejected
\* because embedText threw (the document is dropped and the pass goes on).
C5_EmbedFailureSkipsDocument ==
    /\ resp.built # "embed_failed"
    /\ \A r \in Reqs : req[r].built # "embed_failed"

\* C6: a buildIndex call made while a pass is executing settles in the step of
\* the call, resolved (not rejected) with {ok: true, note: "indexing_in_progress",
\* indexedAt: store.indexedAt at that moment}; the store is untouched, and
\* POST /reindex answers 200 with that value.
C6_InProgressStatus ==
    [][\A r \in Reqs :
          (Calls(r) /\ Passing # {})
              => /\ build'[r].pc = "none"
                 /\ After(r).built = "indexing_in_progress"
                 /\ items' = items
                 /\ indexedAt' = indexedAt
                 /\ After(r).kind = "reindex"
                       => /\ Responds(r)
                          /\ resp'.status = 200
                          /\ resp'.out = [ok |-> TRUE,
                                          note |-> "indexing_in_progress",
                                          indexedAt |-> indexedAt,
                                          stats |-> NoStats]]_vars

\* POST /reindex has just been turned away while a pass was rebuilding an
\* existing snapshot: the status carries the previous snapshot's timestamp
C6_Witness ==
    /\ Passing # {}
    /\ resp.kind = "reindex"
    /\ resp.out.note = "indexing_in_progress"
    /\ resp.out.indexedAt # null
    /\ resp.out.indexedAt = indexedAt

\* the chunks of file f in the active snapshot, in order
fileChunks(f) ==
    SelectSeq(items, LAMBDA it : it.fileId = f)

\* C7: the active snapshot holds the chunks of one pass only, and for every file
\* in it all the chunks chunkText produced for that file's text, with sequence
\* indices 0..n-1.
C7_WholeDocumentsOnePass ==
    /\ \A i \in 1..Len(items) : items[i].pass = snapPass
    /\ \A f \in {items[i].fileId : i \in 1..Len(items)} :
          \E text \in Texts(f) :
              /\ Len(fileChunks(f)) = Len(chunkText(text))
              /\ \A k \in 1..Len(fileChunks(f)) :
                    /\ fileChunks(f)[k].chunkId = <<f, k - 1>>
                    /\ fileChunks(f)[k].text = chunkText(text)[k]

\* the snapshot holds a document of two chunks and a second document
C7_Witness ==
    /\ \E i \in 1..Len(items) : items[i].chunkId[2] = 1
    /\ Cardinality({items[i].fileId : i \in 1..Len(items)}) = 2

C9_BuildFailureStillAnswers ==
    [][\A r \in Reqs :
          (Responds(r) /\ resp'.kind = "search" /\ resp'.built \in Errors)
              => \/ /\ resp'.status = 200 /\ resp'.ok
                    /\ resp'.note = "empty_index"
                    /\ Len(items') = 0
                 \/ /\ resp'.status = 200 /\ resp'.ok
                    /\ resp'.note = "results"
                    /\ Len(items) > 0
                    /\ Len(resp'.scored) = Len(items)
                 \/ /\ resp'.status = 500
                    /\ req[r].pc = "embedQuery"]_vars

\* a request whose rebuild failed has just been answered with results from the
\* old snapshot
C9_Witness ==
    /\ resp.kind = "search"
    /\ resp.built \in {"listing_failed", "embed_failed"}
    /\ resp.note = "results"
    /\ Len(resp.scored) > 0

\* C10: a search request that found the store empty does not go on past its
\* index-ready step while a build pass is still executing.
C10_EmptyWaitsForRunningPass ==
    [][\A r \in Reqs :
          (req[r].pc \in {"intent", "awaitBuild"}
             /\ After(r).found = "empty"
             /\ req'[r].pc \notin {"intent", "awaitBuild"})
              => Passing' = {}]_vars

\* C11 as claimed: a request with search intent that finds a non-empty snapshot
\* while a pass is executing goes on to retrieve at once, and every result list
\* is scored over the snapshot that was active when the request's search
\* started (when it passed the index-ready step).
C11_SearchKeepsSnapshotFound ==
    [][\A r \in Reqs :
          /\ (req[r].pc = "intent" /\ After(r).found # "" /\ Len(items) > 0
                /\ Passing # {})
                => req'[r].pc = "embedQuery"
          /\ (Responds(r) /\ resp'.note = "results")
                => \A i \in 1..Len(resp'.scored) :
                      resp'.scored[i][3] = resp'.seenPass]_vars

\* C11 as amended: a request with search intent that finds a non-empty snapshot
\* while a pass is executing goes on to retrieve in that very step, leaving the
\* pass and the store alone; its result list is scored over the whole snapshot
\* that is active when the query's embedding arrives; and a pass that has not
\* ended never touches store.items or store.indexedAt.
C11_SearchNeverWaitsForPass ==
    [][\A r \in Reqs :
          /\ (req[r].pc = "intent" /\ After(r).found # "" /\ Len(items) > 0
                /\ Passing # {})
                => /\ req'[r].pc = "embedQuery"
                   /\ Passing' = Passing
                   /\ items' = items
                   /\ indexedAt' = indexedAt
          /\ (Responds(r) /\ resp'.note = "results")
                => /\ resp'.scored = scoredChunks(items)
                   /\ resp'.indexedAt = indexedAt
                   /\ items' = items
          /\ (build[r].pc \in Running /\ build'[r].pc \in Running)
                => /\ items' = items
                   /\ indexedAt' = indexedAt]_vars

\* a request found a snapshot within the TTL while a pass was executing and is
\* retrieving from it; the pass is still executing
C11_Witness ==
    \E r, q \in Reqs :
        /\ build[q].pc \in Running
        /\ Len(build[q].newItems) > 0
        /\ req[r].pc = "embedQuery"
        /\ req[r].found = "fresh"

\* the texts without any non-whitespace character that getFileText may yield
\* for file f
BlankTexts(f) ==
    {text \in Texts(f) : \A i \in 1..Len(text) : IsWs(text[i])}

\* in this step the pass of r receives the text of its current document, and
\* the extraction failed or the text is empty or whitespace-only
SkipsDocument(r) ==
    /\ build[r].pc = "getText"
    /\ \/ GetTextFails(r)
       \/ \E text \in BlankTexts(build[r].files[build[r].fi]) : TextArrived(r, text)

\* C12: when the extraction of a document fails or yields empty or
\* whitespace-only text, skippedNoText grows by exactly one, no chunk is added
\* and indexedFiles stays; the pass goes on with the next document, or, after the
\* last one, installs the chunks collected so far and resolves; and every
\* finished document of a pass has been counted exactly once, as indexed or as
\* skipped.
C12_UnreadableDocumentSkipped ==
    [][\A r \in Reqs :
          /\ SkipsDocument(r)
                => LET b == build[r]
                   IN  IF b.fi < Len(b.files)
                       THEN /\ build'[r].pc = "getText"
                            /\ build'[r].fi = b.fi + 1
                            /\ build'[r].skippedNoText = b.skippedNoText + 1
                            /\ build'[r].indexedFiles = b.indexedFiles
                            /\ build'[r].newItems = b.newItems
                            /\ build'[r].totalChunks = b.totalChunks
                       ELSE /\ PassEnds(r)
                            /\ After(r).built = "built"
                            /\ items' = b.newItems
                            /\ \A i \in 1..Len(items') :
                                  items'[i].fileId # b.files[b.fi]
                            /\ After(r).kind = "reindex"
                                  => resp'.out.stats.skippedNoText
                                        = b.skippedNoText + 1
          /\ build'[r].pc \in {"getText", "embed"}
                => build'[r].indexedFiles + build'[r].skippedNoText
                      = build'[r].fi - 1]_vars

\* POST /reindex has just installed a snapshot from a pass that skipped its
\* first document and indexed the second
C12_Witness ==
    /\ resp.kind = "reindex"
    /\ resp.out.note = "built"
    /\ resp.out.stats.skippedNoText = 1
    /\ resp.out.stats.indexedFiles = 1
    /\ Len(items) > 0
    /\ items[1].fileId = 2

\* C13: a pass awaits embedText only for a chunk chunkText produced from the
\* current document's text; the step that receives a text without chunks never
\* leads to an embedText call for that document, and the step that ends the
\* last embedText call of a document moves on to the next document.
C13_EmbedOnlyProducedChunks ==
    [][\A r \in Reqs :
          /\ build'[r].pc = "embed"
                => /\ Len(build'[r].chunks) > 0
                   /\ build'[r].ci \in 1..Len(build'[r].chunks)
                   /\ \E text \in Texts(build'[r].files[build'[r].fi]) :
                         build'[r].chunks = chunkText(text)
          /\ (build[r].pc = "getText"
                /\ \E text \in Texts(build[r].files[build[r].fi]) :
                      Len(chunkText(text)) = 0 /\ TextArrived(r, text))
                => ~(build'[r].pc = "embed" /\ build'[r].fi = build[r].fi)
          /\ (build[r].pc = "embed" /\ build'[r].pc = "embed"
                /\ build'[r] # build[r])
                => /\ build'[r].fi = build[r].fi
                   /\ build'[r].chunks = build[r].chunks
                   /\ build'[r].ci = build[r].ci + 1]_vars

\* a pass that skipped its first document without an embedding call is
\* embedding the first chunk of the next one
C13_Witness ==
    \E r \in Reqs :
        /\ build[r].pc = "embed"
        /\ build[r].skippedNoText = 1
        /\ build[r].indexedFiles = 0
        /\ build[r].fi = 2
        /\ build[r].ci = 1

\* the greatest element of a non-empty set of numbers
MaxOf(S) ==
    CHOOSE m \in S : \A x \in S : x <= m

\* the similarities of the chunks of document id among the chunks cs
SimsOf(cs, id) ==
    {cs[i].similarity : i \in {j \in 1..Len(cs) : cs[j].fileId = id}}

\* C14 as claimed: the score of every returned document is the maximum
\* similarity of that document's chunks among the top chunks (the returned score
\* is a fraction of 10000, a similarity a fraction of Unit).
C14_ScoreIsMaxSimilarity ==
    sem.pc = "returned"
        => \A i \in 1..Len(sem.archivos) :
              sem.archivos[i].score * Unit
                  = MaxOf(SimsOf(sem.topChunks, sem.archivos[i].id)) * 10000

\* C14 as amended: the score aggregated for a document is the maximum similarity
\* of its chunks among the top chunks, and the score returned for it is that
\* maximum rounded to the nearest multiple of 0.0001.
C14_ScoreIsRoundedMaxSimilarity ==
    sem.pc = "returned"
        => /\ \A k \in 1..Len(sem.docs) :
                 sem.docs[k].score = MaxOf(SimsOf(sem.topChunks, sem.docs[k].id))
           /\ \A i \in 1..Len(sem.archivos) :
                 LET m == MaxOf(SimsOf(sem.topChunks, sem.archivos[i].id))
                     d == sem.archivos[i].score * Unit - m * 10000
                 IN  2 * d <= Unit /\ 2 * d >= -Unit

\* a returned document has chunks of different similarities among the top
\* chunks, and its maximum is not a multiple of 0.0001
C14_Witness ==
    /\ sem.pc = "returned"
    /\ \E i \in 1..Len(sem.archivos) :
          LET sims == SimsOf(sem.topChunks, sem.archivos[i].id)
          IN  /\ Cardinality(sims) > 1
              /\ (MaxOf(sims) * 10000) % Unit # 0

\* the documents that have a chunk among the chunks cs
DocsOf(cs) ==
    {cs[i].fileId : i \in 1..Len(cs)}

\* the ids of the returned documents
Returned(archivos) ==
    {archivos[i].id : i \in 1..Len(archivos)}

\* the aggregated score of document id in the call of semanticSearch looked at
Aggregated(id) ==
    MaxOf(SimsOf(sem.topChunks, id))

\* C15: no returned document has an aggregated score below minSimilarity, and a
\* document of the top chunks whose score is at least minSimilarity is returned
\* unless TOPK_DOCS documents scoring at least as much are.
C15_ThresholdFilter ==
    sem.pc = "returned"
        => /\ \A id \in Returned(sem.archivos) :
                 /\ id \in DocsOf(sem.topChunks)
                 /\ Aggregated(id) >= sem.minSimilarity
           /\ \A id \in DocsOf(sem.topChunks) :
                 Aggregated(id) >= sem.minSimilarity
                     => \/ id \in Returned(sem.archivos)
                        \/ /\ Len(sem.archivos) = TOPK_DOCS
                           /\ \A other \in Returned(sem.archivos) :
                                 Aggregated(other) >= Aggregated(id)

\* a document scoring exactly minSimilarity is returned while another document
\* of the top chunks, scoring less, is not
C15_Witness ==
    /\ sem.pc = "returned"
    /\ \E id \in Returned(sem.archivos) : Aggregated(id) = sem.minSimilarity
    /\ \E id \in DocsOf(sem.topChunks) :
          /\ Aggregated(id) < sem.minSimilarity
          /\ id \notin Returned(sem.archivos)

\* the documents semanticSearch returns for the snapshot and the query vector
\* of the call looked at, with threshold t
ReturnedWith(t) ==
    Returned(semanticSearch(items, indexedAt, sem.qVec, t).archivos)

\* C16: for the same snapshot and query vector, every document returned with a
\* threshold is also returned with any lower threshold.
C16_LowerThresholdReturnsMore ==
    sem.pc = "returned"
        => \A t1 \in MinSims :
              t1 < sem.minSimilarity
                  => Returned(sem.archivos) \subseteq ReturnedWith(t1)

\* the call returned TOPK_DOCS documents, and with a lower threshold more than
\* TOPK_DOCS documents pass the filter, so that the truncation applies
C16_Witness ==
    /\ sem.pc = "returned"
    /\ Len(sem.archivos) = TOPK_DOCS
    /\ \E t1 \in MinSims :
          /\ t1 < sem.minSimilarity
          /\ Cardinality({id \in DocsOf(sem.topChunks) : Aggregated(id) >= t1})
                > TOPK_DOCS
          /\ Cardinality({id \in DocsOf(sem.topChunks) :
                             Aggregated(id) >= sem.minSimilarity})
                < Cardinality({id \in DocsOf(sem.topChunks) : Aggregated(id) >= t1})

\* C17: the returned list is in non-increasing order of score (of the returned
\* score and of the aggregated one), has at most TOPK_DOCS entries, and no two
\* entries have the same document id.
C17_OrderedBoundedDistinct ==
    sem.pc = "returned"
        => /\ Len(sem.archivos) <= TOPK_DOCS
           /\ \A i, j \in 1..Len(sem.archivos) :
                 i < j => /\ sem.archivos[i].score >= sem.archivos[j].score
                          /\ Aggregated(sem.archivos[i].id)
                                >= Aggregated(sem.archivos[j].id)
                          /\ sem.archivos[i].id # sem.archivos[j].id

\* TOPK_DOCS documents of different scores are returned, and one of them has
\* several chunks among the top chunks
C17_Witness ==
    /\ sem.pc = "returned"
    /\ Len(sem.archivos) = TOPK_DOCS
    /\ sem.archivos[1].score > sem.archivos[TOPK_DOCS].score
    /\ Len(sem.topChunks) > Cardinality(DocsOf(sem.topChunks))

\* the index in store.items of the chunk c (chunkIds are distinct in a snapshot)
PosOf(c) ==
    CHOOSE p \in 1..Len(items) : items[p].chunkId = c.chunkId

\* C18: store.search(qVec, TOPK_CHUNKS) returns min(TOPK_CHUNKS, number of
\* items) chunks of the snapshot, each with its cosine to the query as
\* similarity, in non-increasing order of similarity and, among equal
\* similarities, in the order of store.items; no chunk left out has a greater
\* similarity than a returned one, nor an equal similarity and an earlier place
\* in store.items.
C18_SearchTopKStable ==
    sem.pc = "returned"
        => LET top == sem.topChunks
           IN  /\ Len(top) = Min(TOPK_CHUNKS, Len(items))
               /\ \A i \in 1..Len(top) :
                     /\ \E p \in 1..Len(items) : items[p].chunkId = top[i].chunkId
                     /\ top[i] = items[PosOf(top[i])]
                                    @@ [similarity |-> top[i].similarity]
                     /\ top[i].similarity
                           = cosine(sem.qVec, items[PosOf(top[i])].vector)
               /\ \A i, j \in 1..Len(top) :
                     i < j => \/ top[i].similarity > top[j].similarity
                              \/ /\ top[i].similarity = top[j].similarity
                                 /\ PosOf(top[i]) < PosOf(top[j])
               /\ \A p \in 1..Len(items) :
                     (\A i \in 1..Len(top) : PosOf(top[i]) # p)
                         => \A i \in 1..Len(top) :
                               LET sim == cosine(sem.qVec, items[p].vector)
                               IN  \/ sim < top[i].similarity
                                   \/ /\ sim = top[i].similarity
                                      /\ PosOf(top[i]) < p

\* the snapshot has more than TOPK_CHUNKS chunks, and a chunk left out has the
\* same similarity as the last chunk returned
C18_Witness ==
    /\ sem.pc = "returned"
    /\ Len(items) > TOPK_CHUNKS
    /\ Len(sem.topChunks) = TOPK_CHUNKS
    /\ sem.topChunks[1].similarity > sem.topChunks[TOPK_CHUNKS].similarity
    /\ \E p \in 1..Len(items) :
          /\ \A i \in 1..Len(sem.topChunks) : PosOf(sem.topChunks[i]) # p
          /\ cosine(sem.qVec, items[p].vector)
                = sem.topChunks[TOPK_CHUNKS].similarity

\* the snippet of the first chunk of document id, among the chunks cs, that has
\* the document's maximum similarity
SnippetOf(cs, id) ==
    LET best == CHOOSE i \in 1..Len(cs) :
                    /\ cs[i].fileId = id
                    /\ cs[i].similarity = MaxOf(SimsOf(cs, id))
                    /\ \A j \in 1..(i - 1) :
                          ~(cs[j].fileId = id /\ cs[j].similarity = cs[i].similarity)
    IN  slice(cs[best].text, 0, SNIPPET_CHARS)

\* C19: every returned document carries a bestSnippet, the text, cut to the
\* preview length, of the chunk that produced its maximum score.
C19_ReturnedDocumentHasSnippet ==
    sem.pc = "returned"
        => \A i \in 1..Len(sem.archivos) :
              /\ "bestSnippet" \in DOMAIN sem.archivos[i]
              /\ sem.archivos[i].bestSnippet
                    = SnippetOf(sem.topChunks, sem.archivos[i].id)

\* C20: when analyzeIntentAndRewrite answers should_search = false, the handler
\* responds in that step, 200 and ok with the zero-results body, without
\* calling buildIndex and without reaching semanticSearch: store.items,
\* store.indexedAt, isIndexing, every buildIndex invocation and the count of
\* passes are as before, whatever the state of the snapshot.
C20_NoSearchTouchesNothing ==
    [][\A r \in Reqs :
          IntentResolved(r, FALSE)
              => /\ Responds(r)
                 /\ resp'.status = 200
                 /\ resp'.ok
                 /\ resp'.note = "no_search"
                 /\ resp'.scored = <<>>
                 /\ resp'.found = ""
                 /\ resp'.built = ""
                 /\ items' = items
                 /\ indexedAt' = indexedAt
                 /\ isIndexing' = isIndexing
                 /\ build' = build
                 /\ passes' = passes]_vars

\* a request without search intent has just been answered while the snapshot
\* was older than the TTL and no pass was flagged
C20_Witness ==
    /\ resp.kind = "search"
    /\ resp.note = "no_search"
    /\ Len(items) > 0
    /\ indexExpired
    /\ ~isIndexing

\* the text holds the members of a JSON object between its braces
HoldsObject(text) ==
    \E i \in 1..(Len(text) - 2) : SubSeq(text, i, i + 2) = <<"{", "members", "}">>

\* the provider gave no usable answer in the call looked at: it was not
\* initialised, it threw, its text holds no JSON object, or the object has no
\* boolean should_search
NoUsableAnswer ==
    \/ ~call.geminiModel
    \/ call.answer.throws
    \/ ~HoldsObject(call.answer.text)
    \/ call.answer.members.should_search.t # "boolean"

\* C21: when the understanding provider is not initialised, throws, answers
\* with a text that holds no JSON object, or answers with an object without a
\* boolean should_search, analyzeIntentAndRewrite yields should_search = true,
\* the trimmed raw query as the query to use and no suggested threshold, so that
\* the handler goes on to the search with the trimmed query and the default
\* threshold.
C21_FallbackSearchesLiterally ==
    (call.fn = "understand" /\ NoUsableAnswer)
        => /\ call.intent.should_search
           /\ call.intent.rewritten_query = trim(call.query)
           /\ call.intent.min_similarity = jsNull
           /\ call.proceeds
           /\ call.rewritten = trim(call.query)
           /\ call.minSim = DEFAULT_MIN_SIMILARITY(call.env)

\* the provider answered an object whose should_search is not a boolean, with a
\* rewrite and a threshold in it, for a query with white space around it
C21_Witness ==
    /\ call.fn = "understand"
    /\ call.geminiModel
    /\ ~call.answer.throws
    /\ HoldsObject(call.answer.text)
    /\ call.answer.members.should_search = Str(<<"y">>)
    /\ call.answer.members.rewritten_query = Str(<<" ", "r">>)
    /\ call.answer.members.min_similarity = Num(90)
    /\ call.query = <<" ", "q", " ">>
    /\ call.rewritten = <<"q">>
    /\ call.proceeds

\* C22: the threshold the handler passes to semanticSearch is a number within
\* [0.60, 0.85], whether it comes from the provider's suggestion or from
\* DEFAULT_MIN_SIMILARITY.
C22_ThresholdWithinInterval ==
    (call.fn = "understand" /\ call.proceeds)
        => /\ call.minSim.t = "number"
           /\ 60 <= call.minSim.n
           /\ call.minSim.n <= 85

\* C23: a well-formed search request is never answered with a failure
\* response: whatever internal step fails after validation, the response is a
\* successful (zero-results) one, not a 5xx.
C23_SearchNeverAnswersServerError ==
    (resp.kind = "search" /\ resp.note # "bad_query")
        => resp.status = 200 /\ resp.ok

\* the handler of search request r gets past the index-ready step (lines
\* 502-507) in this step
PastIndexStep(r) ==
    /\ req[r].pc \in {"intent", "awaitBuild"}
    /\ req'[r].pc \notin {"intent", "awaitBuild"}
    /\ After(r).kind = "search"
    /\ After(r).found # ""

\* C24: semanticSearch calls embedText for a query only while store.items is
\* non-empty, and a search request that finds the store empty after the
\* index-ready step is answered at once with zero results.
C24_NoQueryEmbeddingOnEmptyIndex ==
    [][\A r \in Reqs :
          /\ (req[r].pc # "embedQuery" /\ req'[r].pc = "embedQuery")
                => Len(items') > 0
          /\ (PastIndexStep(r) /\ Len(items') = 0)
                => /\ Responds(r)
                   /\ resp'.status = 200
                   /\ resp'.ok
                   /\ resp'.note = "empty_index"]_vars

\* a request found the store empty, waited for the pass it started, the pass
\* installed an empty snapshot, and the request has just been answered with
\* zero results
C24_Witness ==
    /\ resp.kind = "search"
    /\ resp.note = "empty_index"
    /\ resp.found = "empty"
    /\ resp.built = "built"
    /\ Len(items) = 0
    /\ snapPass > 0

\* C25: with len the length of the normalised, trimmed and clipped text,
\* chunkText returns no chunk when len = 0 (empty or blank text), one chunk when
\* 0 < len <= CHUNK_SIZE, and
\* ceil((len - CHUNK_OVERLAP) / (CHUNK_SIZE - CHUNK_OVERLAP)) chunks when
\* len > CHUNK_SIZE.
C25_ChunkCount ==
    call.fn = "chunkText"
        => LET len  == Len(clippedOf(call.text))
               step == CHUNK_SIZE - CHUNK_OVERLAP
               n    == Len(call.chunks)
           IN  /\ (\A i \in 1..Len(call.text) : IsWs(call.text[i])) => n = 0
               /\ len = 0 => n = 0
               /\ (0 < len /\ len <= CHUNK_SIZE) => n = 1
               /\ len > CHUNK_SIZE
                     => n = (len - CHUNK_OVERLAP + step - 1) \div step

\* a text longer than MAX_TEXT_CHARS_PER_FILE after normalisation, with white
\* space in it, was cut into more than two chunks
C25_Witness ==
    /\ call.fn = "chunkText"
    /\ Len(trim(collapseWs(call.text))) > MAX_TEXT_CHARS_PER_FILE
    /\ \E i \in 1..Len(clippedOf(call.text)) : clippedOf(call.text)[i] = " "
    /\ Len(call.chunks) > 2

\* the last k characters and the first k characters of a string
lastChars(s, k) ==
    SubSeq(s, Len(s) - k + 1, Len(s))
firstChars(s, k) ==
    SubSeq(s, 1, k)

\* C26 as stated: the last CHUNK_OVERLAP characters of each returned chunk are
\* the first CHUNK_OVERLAP characters of the next, and every returned chunk but
\* the last has exactly CHUNK_SIZE characters.
C26_ChunksOverlapExactly ==
    call.fn = "chunkText"
        => \A i \in 1..(Len(call.chunks) - 1) :
              /\ Len(call.chunks[i]) = CHUNK_SIZE
              /\ Len(call.chunks[i + 1]) >= CHUNK_OVERLAP
              /\ lastChars(call.chunks[i], CHUNK_OVERLAP)
                    = firstChars(call.chunks[i + 1], CHUNK_OVERLAP)

\* the i-th window chunkText cuts out of the clipped text c (lines 253-258)
windowOf(c, i) ==
    slice(c, (i - 1) * (CHUNK_SIZE - CHUNK_OVERLAP),
             (i - 1) * (CHUNK_SIZE - CHUNK_OVERLAP) + CHUNK_SIZE)

\* C26, amended: the windows chunkText cuts out of the clipped text are
\* CHUNK_SIZE characters wide (the last may be shorter) and each starts
\* CHUNK_OVERLAP characters before the end of the one before, so consecutive
\* windows share exactly CHUNK_OVERLAP characters; the i-th chunk returned is
\* the i-th window with the white space at its two ends removed, at most one
\* character at each end.
C26_ChunksAreTrimmedOverlappingWindows ==
    call.fn = "chunkText"
        => LET c == clippedOf(call.text)
               n == Len(call.chunks)
           IN  \A i \in 1..n :
                  /\ call.chunks[i] = trim(windowOf(c, i))
                  /\ Len(call.chunks[i]) >= Len(windowOf(c, i)) - 2
                  /\ i < n
                        => /\ Len(windowOf(c, i)) = CHUNK_SIZE
                           /\ lastChars(windowOf(c, i), CHUNK_OVERLAP)
                                 = firstChars(windowOf(c, i + 1), CHUNK_OVERLAP)
                  /\ i = n => i * (CHUNK_SIZE - CHUNK_OVERLAP) + CHUNK_OVERLAP >= Len(c)

\* a window ended in a space, so the chunk returned for it is shorter than
\* CHUNK_SIZE and does not end with the characters the next chunk starts with
C26_Witness ==
    /\ call.fn = "chunkText"
    /\ \E i \in 1..(Len(call.chunks) - 1) :
          /\ Len(call.chunks[i]) < CHUNK_SIZE
          /\ windowOf(clippedOf(call.text), i)[CHUNK_SIZE] = " "
          /\ lastChars(call.chunks[i], CHUNK_OVERLAP)
                # firstChars(call.chunks[i + 1], CHUNK_OVERLAP)

\* the chunkIds of document f in the sequence of chunks its
idsOf(its, f) ==
    {its[p].chunkId : p \in {q \in 1..Len(its) : its[q].fileId = f}}

\* C27: a chunkId is determined by the document id and the sequence index of
\* the chunk within the document (the k-th chunk of document f has the id of
\* (f, k - 1)); the chunkIds of a snapshot are pairwise distinct, every document
\* id being listed once; and a pass that replaces a snapshot gives every
\* document found in both the same set of chunkIds.
C27_ChunkIdsDeterministicDistinct ==
    [][/\ \A f \in 1..NFiles : \A k \in 1..Len(fileChunks(f)') :
              fileChunks(f)'[k].chunkId = chunkIdOf(f, k - 1)
       /\ \A p, q \in 1..Len(items') :
              p # q => items'[p].chunkId # items'[q].chunkId
       /\ items' # items
             => \A f \in 1..NFiles :
                   (idsOf(items, f) # {} /\ idsOf(items', f) # {})
                       => idsOf(items', f) = idsOf(items, f)]_vars

\* a pass later than the first has installed a snapshot of two documents, one
\* of them with two chunks
C27_Witness ==
    /\ snapPass > 1
    /\ Cardinality({items[p].fileId : p \in 1..Len(items)}) > 1
    /\ \E f \in 1..NFiles : Cardinality(idsOf(items, f)) > 1

\* how many times x occurs in the sequence s
countIn(s, x) ==
    Cardinality({i \in 1..Len(s) : s[i] = x})

\* the model was asked and gave a ranking that forEach went through, with a
\* non-zero score for one of the files
GaveRanking ==
    /\ call.generativeModel
    /\ Len(docsWithText(call.files, call.texts)) > 0
    /\ call.answer.kind = "ranking"
    /\ ~entryThrows(call.answer)
    /\ \E i \in 1..Len(call.answer.ranking) :
          /\ countIn(call.files, call.answer.ranking[i].fileId) > 0
          /\ truthy(call.answer.ranking[i].score)

\* C28: ordenarPorContexto returns a permutation of the files it received,
\* whatever the model and getFileText do, and returns them in the order
\* received unless the model gave a ranking that scores one of them.
C28_OrdenarReturnsPermutation ==
    call.fn = "ordenarPorContexto"
        => /\ Len(call.result) = Len(call.files)
           /\ \A f \in 1..(MaxFiles + 1) :
                 countIn(call.result, f) = countIn(call.files, f)
           /\ call.result # call.files => GaveRanking

\* the model ranked a file that was not sent to it above the file that was,
\* and the two files came back in the other order
C28_Witness ==
    /\ call.fn = "ordenarPorContexto"
    /\ Len(call.files) > MAX_DOCS_FOR_LLM
    /\ call.result # call.files
    /\ call.result[1] = call.files[Len(call.files)]

\* the score the model's answer gives file f in the call looked at, as
\* rankearPorContexto reads it; -1 if the model was not asked or gave no
\* ranking that could be read
scoreOf(f) ==
    IF /\ call.generativeModel
       /\ Len(docsWithText(call.files, call.texts)) > 0
       /\ call.answer.kind = "ranking"
       /\ ~entryThrows(call.answer)
       /\ f \in DOMAIN rankingMapClamped(call.answer.ranking, Len(call.answer.ranking))
    THEN rankingMapClamped(call.answer.ranking, Len(call.answer.ranking))[f]
    ELSE -1

\* C29: every file rankearPorContexto returns has a relevance score of at
\* least SEMANTIC_SCORE_THRESHOLD, on every path.
C29_RankearReturnsOnlyScoredFiles ==
    call.fn = "rankearPorContexto"
        => \A i \in 1..Len(call.result) :
              scoreOf(call.result[i]) >= SEMANTIC_SCORE_THRESHOLD

\* C30: once a pass has failed (the last pass started is over and did not
\* install its snapshot), a call of buildIndex made while no pass is executing
\* starts a fresh pass and does not report indexing_in_progress.
C30_FailedPassCanBeRetried ==
    [][\A r \in Reqs :
          (Calls(r) /\ Passing = {} /\ snapPass < passes)
              => /\ passes' = passes + 1
                 /\ build'[r].pc = "listing"
                 /\ After(r).built # "indexing_in_progress"]_vars

\* C31: a pass in which no document could be read does not clear a non-empty
\* snapshot.  Stated for the pass over a listing of one document whose
\* getFileText call fails: the step that ends it leaves store.items as it was.
C31_UnreadablePassKeepsSnapshot ==
    [][\A r \in Reqs :
          (/\ GetTextFails(r)
           /\ Len(build[r].files) = 1
           /\ build[r].fi = 1
           /\ Len(items) > 0)
              => items' = items]_vars

\* C32: chunkText terminates on every input: every iteration that does not
\* end the loop moves the window start strictly forward, the loop ends with
\* the iteration whose window reaches the end of the clipped text, the number
\* of iterations never exceeds the length of the clipped text, and every call
\* returns (with the chunks chunkText is defined to give).
C32_ChunkTextTerminates ==
    /\ [][(call.fn = "chunkLoop" /\ call.pc = "loop")
             => /\ call'.iterations = call.iterations + 1
                /\ call'.iterations <= Len(call.clipped)
                /\ IF call.start + CHUNK_SIZE >= Len(call.clipped)
                   THEN call'.pc = "returned"
                   ELSE call'.pc = "loop" /\ call'.start > call.start
                /\ call'.pc = "returned"
                      => call'.chunks = chunkText(call.text)]_vars
    /\ (call.fn = "chunkLoop") ~> (call.fn = "chunkLoop" /\ call.pc = "returned")

\* a call has returned after three iterations or more
C32_Witness ==
    /\ call.fn = "chunkLoop"
    /\ call.pc = "returned"
    /\ call.iterations >= 3
    /\ Len(call.chunks) = call.iterations

\* C33: every well-formed search request is answered exactly once, provided
\* every provider call returns or throws: a handler that has sent its response
\* does nothing more, the step that ends a handler sends a response with a
\* status, and every search request under way is eventually answered.
C33_SearchAnsweredExactlyOnce ==
    /\ [][\A r \in Reqs :
             /\ req[r].pc = "responded" => req'[r] = req[r]
             /\ Responds(r) => resp'.status \in {200, 400, 500}
             /\ (req'[r] # req[r] /\ req[r].kind = "search")
                   => req'[r].pc \in {"intent", "awaitBuild", "embedQuery",
                                      "responded"}]_vars
    /\ \A r \in Reqs :
          (req[r].kind = "search" /\ req[r].pc # "responded")
              ~> (req[r].pc = "responded")

\* a search request that waited for a pass and then for the embedding of its
\* query has just been answered 500 after that embedding failed
C33_Witness ==
    /\ resp.kind = "search"
    /\ resp.status = 500
    /\ resp.found = "empty"
    /\ resp.built = "built"
    /\ \E r \in Reqs : req[r].pc = "responded"

\* C34: the statistics a successful build returns agree with the snapshot it
\* installed: totalFiles = indexedFiles + skippedNoText, totalChunks is the
\* number of items in store.items, indexedFiles is the number of distinct
\* fileIds in store.items, and stats.indexedAt is store.indexedAt.  (The
\* statistics are seen in the answer of POST /reindex, in the state the
\* answering step leaves.)
C34_StatsMatchSnapshot ==
    (resp.kind = "reindex" /\ resp.out.note = "built")
        => LET stats == resp.out.stats
           IN  /\ stats.totalFiles = stats.indexedFiles + stats.skippedNoText
               /\ stats.totalChunks = Len(items)
               /\ stats.indexedFiles
                     = Cardinality({items[i].fileId : i \in 1..Len(items)})
               /\ stats.indexedAt = indexedAt
               /\ resp.out.indexedAt = indexedAt

\* POST /reindex has just answered with the statistics of a pass over two
\* documents, three chunks in all, started before the clock moved
C34_Witness ==
    /\ resp.kind = "reindex"
    /\ resp.out.note = "built"
    /\ resp.out.stats.totalFiles = 2
    /\ resp.out.stats.indexedFiles = 2
    /\ resp.out.stats.totalChunks = 3
    /\ resp.out.stats.startedAt < resp.out.stats.indexedAt

\* C35 as stated: in every ok answer of POST /, in the three programs alike,
\* total is the number of entries of archivos
C35_TotalIsLengthOfArchivos ==
    (call.fn = "answer" /\ call.ok) => call.total = Len(call.archivos)

\* C35: in every ok answer of POST / of the indexed program and of the
\* program that reranks, total is the number of entries of archivos; in the
\* simple embedding program total is the number of documents that reached
\* MIN_SIMILARITY and archivos holds the first TOP_K of them, so that total is
\* the number of entries of archivos exactly when no more than TOP_K documents
\* reached the threshold
C35_TotalCountsArchivosBeforeTheCut ==
    (call.fn = "answer" /\ call.ok)
        => IF call.variant = "simple"
           THEN Len(call.archivos) = Min(call.total, TOP_K)
           ELSE call.total = Len(call.archivos)

\* the simple program answered with more documents over the threshold than it
\* lists
C35_Witness ==
    /\ call.fn = "answer"
    /\ call.variant = "simple"
    /\ call.ok
    /\ call.total > TOP_K
    /\ Len(call.archivos) = TOP_K

\* C36: a store that holds items has a build timestamp (store.indexedAt is
\* not null); store.indexedAt is null as long as no build has installed a
\* snapshot, and not null from the first one that did; and a step changes
\* it only by installing a snapshot, to a timestamp that is not earlier (the
\* clock that nowIso reads does not go back).
C36_StoreHasBuildTimestamp ==
    /\ [](Len(items) > 0 => indexedAt # null)
    /\ []((snapPass = 0) <=> (indexedAt = null))
    /\ [][/\ indexedAt # null => (indexedAt' # null /\ indexedAt' >= indexedAt)
          /\ indexedAt' # indexedAt
                => \E r \in Reqs : /\ build[r].pc # "none"
                                   /\ snapPass' = build[r].pass
                                   /\ indexedAt' = now]_vars

\* a second build has installed its snapshot, later than the first did
C36_Witness ==
    /\ snapPass >= 2
    /\ Len(items) > 0
    /\ indexedAt > 1
    /\ indexedAt = now
    /\ resp.kind = "reindex"
    /\ resp.out.note = "built"
    /\ resp.out.stats.startedAt > 1

\* the first n components of v
Prefix(v, n) ==
    SubSeq(v, 1, n)

\* v has norm zero: it is empty or all its components are 0
ZeroNorm(v) ==
    \A i \in 1..Len(v) : v[i] = 0

\* C37: VectorStore.cosine returns a number, and returns 0 whenever one of
\* the vectors has norm zero (the empty vector included); for vectors of
\* different lengths it is the cosine of their first min(length) components:
\* the dot product and both norms are taken over those alone, and it is 0
\* when one of the two prefixes has norm zero.
C37_CosineTotalOverCommonPrefix ==
    call.fn = "cosine"
        => LET n  == Min(Len(call.a), Len(call.b))
               pa == Prefix(call.a, n)
               pb == Prefix(call.b, n)
               na == sqrt(dot(pa, pa, n))
               nb == sqrt(dot(pb, pb, n))
           IN  /\ call.result \in (0 - Unit)..Unit
               /\ (ZeroNorm(call.a) \/ ZeroNorm(call.b)) => call.result = 0
               /\ (ZeroNorm(pa) \/ ZeroNorm(pb)) => call.result = 0
               /\ call.result = cosine(pa, pb)
               /\ (~ZeroNorm(pa) /\ ~ZeroNorm(pb))
                     => /\ call.result * na * nb <= dot(pa, pb, n) * Unit
                        /\ dot(pa, pb, n) * Unit < (call.result + 1) * na * nb

\* cosine was called with a shorter and a longer vector, the longer one with
\* a component past the common prefix that is not 0, and returned 1
C37_Witness ==
    /\ call.fn = "cosine"
    /\ Len(call.a) < Len(call.b)
    /\ Len(call.a) > 0
    /\ call.b[Len(call.b)] # 0
    /\ call.result = Unit

====
